---------------------------- MODULE Spec2Model ----------------------------
(***************************************************************************)
(* Hybrid retrieval and caching pipeline of the AI learning path           *)
(* generator: reciprocal rank fusion (src/data/bm25_retriever.py), the     *)
(* semantic cache (src/utils/semantic_cache.py), advanced_rag_search,      *)
(* search_documents and schema repair (src/data/document_store.py).        *)
(*                                                                         *)
(* Each subsystem has its own specification over its own variables; the    *)
(* variables of the other subsystems keep their idle value.                *)
(***************************************************************************)
EXTENDS Integers, Sequences, FiniteSets, TLC

VARIABLES
    fusion_pc,        \* "input" before reciprocal_rank_fusion ran, "fused" after
    results_list,     \* argument of reciprocal_rank_fusion: a list of result lists
    fused_results     \* its return value

fusion_vars == <<fusion_pc, results_list, fused_results>>

VARIABLES
    redis_store,      \* the semantic_cache:* keys of the Redis server: key -> entry
    now,              \* the clock of the Redis server
    cache,            \* the fields of the SemanticCache instance in use
    get_st,           \* the local variables of a SemanticCache.get in progress
    ret,              \* what the last SemanticCache.get or set returned
    last_set          \* the last SemanticCache.set call on this instance

cache_vars == <<redis_store, now, cache, get_st, ret, last_set>>

VARIABLES
    rag               \* the local variables of an advanced_rag_search call

rag_vars == <<rag>>

VARIABLES
    rep,              \* the last _try_repair_collection_schema call
    sd                \* the last search_documents call

repair_vars == <<rep, sd>>

VARIABLES
    wr,               \* the last write operation of the DocumentStore
    rr,               \* the Reranker instance and its last rerank call
    bm,               \* the BM25Retriever and its last search call
    hy,               \* the last hybrid_search call
    st,               \* the DocumentStore class and the threads constructing it
    pl                \* the last advanced_rag_search call, stage by stage

write_vars == <<wr>>
reranker_vars == <<rr>>
bm25_vars == <<bm>>
hybrid_vars == <<hy>>
store_vars == <<st>>
pipeline_vars == <<pl>>

VARIABLES
    fe,               \* the parallel fetch of the milestone resources
    ix,               \* the collection and the keyword index of a retrieval
    qr,               \* the last QueryRewriter call
    cc,               \* the last ContextCompressor.compress call
    fc,               \* the files of the FileCache, its clock and its last call
    rv,               \* the last ResourceValidator call
    ab                \* the last add_documents_batch call

fetch_vars == <<fe>>
index_vars == <<ix>>
rewriter_vars == <<qr>>
compressor_vars == <<cc>>
filecache_vars == <<fc>>
validator_vars == <<rv>>
batch_vars == <<ab>>

\* The variables of the helper components.
tools_vars == <<fetch_vars, index_vars, rewriter_vars, compressor_vars,
                filecache_vars, validator_vars, batch_vars>>

\* The variables of the retrieval components.
retrieval_vars == <<fusion_vars, cache_vars, rag_vars, repair_vars, write_vars,
                    reranker_vars, bm25_vars, hybrid_vars, store_vars, pipeline_vars>>

vars == <<fusion_vars, cache_vars, rag_vars, repair_vars, write_vars,
          reranker_vars, bm25_vars, hybrid_vars, store_vars, pipeline_vars,
          tools_vars>>

\* The variables an action of one subsystem leaves alone.
not_fusion == <<cache_vars, rag_vars, repair_vars, write_vars, reranker_vars,
                bm25_vars, hybrid_vars, store_vars, pipeline_vars, tools_vars>>
not_cache  == <<fusion_vars, rag_vars, repair_vars, write_vars, reranker_vars,
                bm25_vars, hybrid_vars, store_vars, pipeline_vars, tools_vars>>
not_rag    == <<fusion_vars, repair_vars, write_vars, reranker_vars, bm25_vars,
                hybrid_vars, store_vars, pipeline_vars, tools_vars>>
not_repair == <<fusion_vars, cache_vars, rag_vars, write_vars, reranker_vars,
                bm25_vars, hybrid_vars, store_vars, pipeline_vars, tools_vars>>
not_write  == <<fusion_vars, cache_vars, rag_vars, repair_vars, reranker_vars,
                bm25_vars, hybrid_vars, store_vars, pipeline_vars, tools_vars>>
not_reranker == <<fusion_vars, cache_vars, rag_vars, repair_vars, write_vars,
                  bm25_vars, hybrid_vars, store_vars, pipeline_vars, tools_vars>>
not_bm25   == <<fusion_vars, cache_vars, rag_vars, repair_vars, write_vars,
                reranker_vars, hybrid_vars, store_vars, pipeline_vars, tools_vars>>
not_hybrid == <<fusion_vars, cache_vars, rag_vars, repair_vars, write_vars,
                reranker_vars, bm25_vars, store_vars, pipeline_vars, tools_vars>>
not_pipeline == <<fusion_vars, cache_vars, rag_vars, repair_vars, write_vars,
                  reranker_vars, bm25_vars, hybrid_vars, store_vars, tools_vars>>
not_store  == <<fusion_vars, cache_vars, rag_vars, repair_vars, write_vars,
                reranker_vars, bm25_vars, hybrid_vars, pipeline_vars, tools_vars>>

(***************************************************************************)
(* Generic helpers                                                         *)
(***************************************************************************)
SeqUpTo(S, n) == UNION {[1..m -> S] : m \in 0..n}

RECURSIVE Concat(_)
Concat(lists) ==
    IF lists = <<>> THEN <<>> ELSE Head(lists) \o Concat(Tail(lists))

Max(a, b) == IF a >= b THEN a ELSE b
Min(a, b) == IF a <= b THEN a ELSE b

(***************************************************************************)
(* Values that can be cached and returned                                  *)
not_fetch == <<retrieval_vars, index_vars, rewriter_vars, compressor_vars,
               filecache_vars, validator_vars, batch_vars>>
not_index == <<retrieval_vars, fetch_vars, rewriter_vars, compressor_vars,
               filecache_vars, validator_vars, batch_vars>>
not_rewriter == <<retrieval_vars, fetch_vars, index_vars, compressor_vars,
                  filecache_vars, validator_vars, batch_vars>>
not_compressor == <<retrieval_vars, fetch_vars, index_vars, rewriter_vars,
                    filecache_vars, validator_vars, batch_vars>>
not_filecache == <<retrieval_vars, fetch_vars, index_vars, rewriter_vars,
                   compressor_vars, validator_vars, batch_vars>>
not_validator == <<retrieval_vars, fetch_vars, index_vars, rewriter_vars,
                   compressor_vars, filecache_vars, batch_vars>>
not_batch == <<retrieval_vars, fetch_vars, index_vars, rewriter_vars,
               compressor_vars, filecache_vars, validator_vars>>

(***************************************************************************)
\* Python's None.
NoneValue == [kind |-> "none"]

\* learning_path.dict() of LearningPathGenerator: a non-empty dict of JSON
\* data.
PathValues == {[kind |-> "path", id |-> "p1"], [kind |-> "path", id |-> "p2"]}

\* A list of langchain Document objects, as advanced_rag_search returns it.
DocsValue(docs) == [kind |-> "documents", docs |-> docs]

\* bool(value)
Truthy(v) ==
    /\ v.kind # "none"
    /\ v.kind = "documents" => v.docs # <<>>

NoGet ==
    [pc |-> "idle", query |-> "", has_threshold |-> FALSE, current_threshold |-> 0,
     keys |-> {}, best_similarity |-> 0, best_result |-> NoneValue,
     seen |-> {}, stale_read |-> FALSE, skipped |-> FALSE, healthy |-> TRUE,
     after_set |-> FALSE, set_value |-> NoneValue]

NoRet == [op |-> "none", val |-> NoneValue, ok |-> FALSE, touched |-> FALSE]

NoSet == [valid |-> FALSE, query |-> "", value |-> NoneValue]

NoCache ==
    [ttl |-> 0, similarity_threshold |-> 0, redis_client |-> FALSE,
     openai_client |-> FALSE, enabled |-> FALSE, ping_ok |-> FALSE, has_key |-> FALSE]

CacheIdle ==
    /\ redis_store = <<>>
    /\ now = 0
    /\ cache = NoCache
    /\ get_st = NoGet
    /\ ret = NoRet
    /\ last_set = NoSet

NoRag ==
    [pc |-> "idle", query |-> "", top_k |-> 0, use_cache |-> FALSE,
     cache_on |-> FALSE, hit |-> FALSE, stages |-> <<>>,
     cached_result |-> NoneValue, candidate_docs |-> <<>>, result |-> NoneValue,
     hit_after |-> FALSE]

RagIdle == rag = NoRag

NoRep ==
    [pc |-> "idle", message |-> <<>>, db_exists |-> FALSE, statements |-> <<>>,
     ret |-> FALSE, raised |-> FALSE]

NoSd ==
    [pc |-> "idle", collection_ok |-> FALSE, query_calls |-> 0,
     query_failed |-> FALSE, repair_calls |-> 0, repaired |-> FALSE,
     retry_failed |-> FALSE, statements |-> <<>>, documents |-> <<>>,
     raised |-> FALSE]

RepairIdle == rep = NoRep /\ sd = NoSd

NoWr ==
    [pc |-> "idle", op |-> "none", documents |-> <<>>, write_calls |-> 0,
     write_failed |-> FALSE, repair_calls |-> 0, statements |-> <<>>,
     raised |-> FALSE, error |-> <<>>, ret |-> "none", ids |-> <<>>]

WriteIdle == wr = NoWr

NoRr ==
    [pc |-> "idle", preferred_local |-> FALSE, cohere_usable |-> FALSE,
     local_usable |-> FALSE, use_local |-> FALSE, cohere_client |-> FALSE,
     cross_encoder |-> FALSE, documents |-> <<>>, top_k |-> 0,
     strategy |-> "none", strategy_raised |-> FALSE, raised |-> FALSE,
     result |-> <<>>]

RerankerIdle == rr = NoRr

NoBm ==
    [pc |-> "idle", indexed |-> FALSE, documents |-> <<>>, scores |-> <<>>,
     order |-> <<>>, top_k |-> 0, result |-> <<>>]

Bm25Idle == bm = NoBm

NoHy ==
    [pc |-> "idle", top_k |-> 0, min_relevance |-> 0, use_cache |-> FALSE,
     sorted_docs |-> <<>>, result |-> <<>>, from_cache |-> FALSE,
     cache_files |-> {}]

HybridIdle == hy = NoHy

\* Most threads that construct a DocumentStore at the same time.
MaxThreads == 2

Threads == 1..MaxThreads

NoSt ==
    [instance |-> FALSE, lock |-> 0, initialized |-> "unset",
     shared_client |-> 0, shared_embedding_function |-> 0,
     client |-> 0, embedding_function |-> 0,
     clients_made |-> 0, embeddings_made |-> 0,
     pc |-> [t \in Threads |-> "out"]]

StoreIdle == st = NoSt

NoPl ==
    [pc |-> "idle", top_k |-> 0, hybrid_top_k |-> 0, rerank_top_k |-> 0,
     keyword_failed |-> FALSE, vector_failed |-> FALSE, fused |-> <<>>,
     rerank_on |-> FALSE, rerank_raised |-> FALSE, failed |-> {},
     result |-> <<>>, raised |-> FALSE]

PipelineIdle == pl = NoPl

NoFe ==
    [pc |-> "idle", milestones |-> <<>>, status |-> <<>>, returned |-> <<>>,
     resources |-> <<>>, collected |-> 0]

FetchIdle == fe = NoFe

NoIx ==
    [pc |-> "idle", collection |-> <<>>, earlier |-> <<>>, get_ok |-> FALSE,
     indexed |-> FALSE, index |-> <<>>, searched |-> 0]

IndexIdle == ix = NoIx

NoQr ==
    [pc |-> "idle", method |-> "none", has_client |-> FALSE, length |-> 0,
     threshold |-> 0, response |-> "none", calls |-> 0, result |-> "none",
     raised |-> FALSE]

RewriterIdle == qr = NoQr

NoCc ==
    [pc |-> "idle", has_client |-> FALSE, documents |-> <<>>, replies |-> <<>>,
     result |-> <<>>, raised |-> FALSE]

CompressorIdle == cc = NoCc

NoFc ==
    [pc |-> "idle", clock |-> 0, file |-> [kind |-> "none"],
     ret |-> [kind |-> "none"]]

FileCacheIdle == fc = NoFc

NoRv ==
    [pc |-> "idle", max_retries |-> 0, retries |-> 0, heads |-> 0, slept |-> 0,
     last_error |-> "none", verdict |-> "none", raised |-> FALSE,
     resources |-> <<>>, results |-> <<>>, validated |-> <<>>]

ValidatorIdle == rv = NoRv

NoAb ==
    [pc |-> "idle", documents |-> <<>>, batch_size |-> 0, i |-> 0,
     passed |-> <<>>, stored |-> <<>>, all_ids |-> <<>>, result |-> <<>>,
     failed |-> FALSE]

BatchIdle == ab = NoAb

\* Every helper component is idle.
ToolsIdle ==
    /\ FetchIdle /\ IndexIdle /\ RewriterIdle /\ CompressorIdle
    /\ FileCacheIdle /\ ValidatorIdle /\ BatchIdle

(***************************************************************************)
(* Reciprocal rank fusion                                                  *)
(***************************************************************************)
\* Longest result list given to the fusion.
MaxLen == 3

\* Default of the parameter k.
DefaultK == 60

\* The page contents of the documents that can be retrieved.
Contents == {"a", "b", "c"}

\* Scores are the rationals 1/(k + rank) and their sums.  They are kept as
\* exact integers: the rational s is represented by s * Scale, where Scale is
\* a common multiple of every denominator DefaultK + rank that can occur.
RECURSIVE ScaleUpTo(_)
ScaleUpTo(n) == IF n = 0 THEN 1 ELSE (DefaultK + n) * ScaleUpTo(n - 1)

Scale == ScaleUpTo(MaxLen)

\* A ranked list as the callers of the fusion build it (BM25Retriever.search,
\* and the semantic_results of advanced_rag_search): rank is the 1-based
\* position.  The same content can occur twice in one list: a collection
\* can hold one content under two ids.
MkResults(contents, origin) ==
    [i \in 1..Len(contents) |->
        [document |-> [page_content |-> contents[i], origin |-> origin],
         score |-> 0,
         rank |-> i]]

\* result.get('rank', result.get('score', 1))
ResultRank(result) ==
    IF "rank" \in DOMAIN result THEN result.rank
    ELSE IF "score" \in DOMAIN result THEN result.score
    ELSE 1

\* hash(doc.page_content): the dictionary key of a document.  Equal contents
\* have equal keys; collisions of the 64-bit string hash are not modelled.
DocKey(doc) == doc.page_content

\* rrf_score = 1.0 / (k + rank)
RrfScore(k, rank) == Scale \div (k + rank)

\* One iteration of the inner loop: doc_scores and doc_objects are one
\* insertion-ordered list of [key, score, document].
Accumulate(acc, result, k) ==
    LET key == DocKey(result.document)
        s   == RrfScore(k, ResultRank(result))
    IN  IF \E i \in 1..Len(acc) : acc[i].key = key
        THEN [i \in 1..Len(acc) |->
                IF acc[i].key = key
                THEN [acc[i] EXCEPT !.score = acc[i].score + s]
                ELSE acc[i]]
        ELSE Append(acc, [key |-> key, score |-> s, document |-> result.document])

RECURSIVE AccumulateAll(_, _, _)
AccumulateAll(acc, results, k) ==
    IF results = <<>> THEN acc
    ELSE AccumulateAll(Accumulate(acc, Head(results), k), Tail(results), k)

\* A sort that puts an item before the earlier items of equal score.
InsertDescUnstable(sorted, item) ==
    LET p == Cardinality({i \in 1..Len(sorted) : sorted[i].score > item.score})
    IN  SubSeq(sorted, 1, p) \o <<item>> \o SubSeq(sorted, p + 1, Len(sorted))

\* sorted(..., key=score, reverse=True) is stable: an item goes after every
\* earlier item whose score is greater or equal.
InsertDesc(sorted, item) ==
    LET p == Cardinality({i \in 1..Len(sorted) : sorted[i].score >= item.score})
    IN  SubSeq(sorted, 1, p) \o <<item>> \o SubSeq(sorted, p + 1, Len(sorted))

RECURSIVE SortedDesc(_, _)
SortedDesc(sorted, items) ==
    IF items = <<>> THEN sorted
    ELSE SortedDesc(InsertDesc(sorted, Head(items)), Tail(items))

reciprocal_rank_fusion(lists, k) ==
    LET doc_scores  == AccumulateAll(<<>>, Concat(lists), k)
        sorted_docs == SortedDesc(<<>>, doc_scores)
    IN  [i \in 1..Len(sorted_docs) |->
            [document |-> sorted_docs[i].document,
             score |-> sorted_docs[i].score,
             rank |-> i]]

FusionIdle ==
    /\ fusion_pc = "idle"
    /\ results_list = <<>>
    /\ fused_results = <<>>

FusionInit ==
    /\ ToolsIdle
    /\ CacheIdle /\ RagIdle /\ RepairIdle
    /\ WriteIdle /\ RerankerIdle /\ Bm25Idle /\ HybridIdle /\ StoreIdle
    /\ PipelineIdle
    /\ fusion_pc = "input"
    /\ \E ca \in SeqUpTo(Contents, MaxLen), cb \in SeqUpTo(Contents, MaxLen) :
          results_list = <<MkResults(ca, "bm25"), MkResults(cb, "semantic")>>
    /\ fused_results = <<>>

Fuse ==
    /\ fusion_pc = "input"
    /\ fused_results' = reciprocal_rank_fusion(results_list, DefaultK)
    /\ fusion_pc' = "fused"
    /\ UNCHANGED results_list
    /\ UNCHANGED not_fusion

FusionNext == Fuse

SpecFusion == FusionInit /\ [][FusionNext]_vars

(***************************************************************************)
(* Claims about the fusion                                                 *)
(***************************************************************************)
RanksIn(list, content) ==
    {list[i].rank : i \in {j \in 1..Len(list) : list[j].document.page_content = content}}

\* The terms one list can contribute to a document under the claim: nothing
\* when the document is absent, 1/(k + r) for a rank r it has in the list.
ListTerms(list, content) ==
    IF RanksIn(list, content) = {} THEN {0}
    ELSE {Scale \div (DefaultK + r) : r \in RanksIn(list, content)}

InputContents ==
    {Concat(results_list)[i].document.page_content : i \in 1..Len(Concat(results_list))}

FirstSeen(content) ==
    LET flat == Concat(results_list)
    IN  CHOOSE i \in 1..Len(flat) :
            /\ flat[i].document.page_content = content
            /\ \A j \in 1..(i - 1) : flat[j].document.page_content # content

\* C1: every fused document has the score that is the sum, over the input
\* lists in which it appears, of 1/(k + rank), whichever of its ranks in a
\* list is taken as its rank there.
C1_ScoreIsSumOverLists ==
    fusion_pc = "fused" =>
        \A i \in 1..Len(fused_results) :
            LET c == fused_results[i].document.page_content
            IN  \E ta \in ListTerms(results_list[1], c),
                   tb \in ListTerms(results_list[2], c) :
                    fused_results[i].score = ta + tb

\* C2: the fusion returns each distinct document exactly once, by score
\* descending, equal scores in first-seen order, ranked 1..N without gaps.
C2_FusedOrder ==
    fusion_pc = "fused" =>
        /\ {fused_results[i].document.page_content : i \in 1..Len(fused_results)}
              = InputContents
        /\ Len(fused_results) = Cardinality(InputContents)
        /\ \A i \in 1..Len(fused_results) : fused_results[i].rank = i
        /\ \A i, j \in 1..Len(fused_results) :
              i < j =>
                 /\ fused_results[i].score >= fused_results[j].score
                 /\ fused_results[i].score = fused_results[j].score =>
                       FirstSeen(fused_results[i].document.page_content)
                           < FirstSeen(fused_results[j].document.page_content)

\* A fusion of two lists in which two documents tie: each is at rank 1 in
\* one list and at rank 2 in the other.
C2_Witness ==
    /\ fusion_pc = "fused"
    /\ Len(fused_results) >= 3
    /\ fused_results[1].score = fused_results[2].score
    /\ fused_results[2].score > fused_results[3].score

\* Every retrieval component is idle.
RetrievalIdle ==
    /\ FusionIdle /\ CacheIdle /\ RagIdle /\ RepairIdle /\ WriteIdle
    /\ RerankerIdle /\ Bm25Idle /\ HybridIdle /\ StoreIdle /\ PipelineIdle


(***************************************************************************)
(* Semantic cache (src/utils/semantic_cache.py)                            *)
(***************************************************************************)
\* Last tick of the Redis clock.
MaxTime == 2

\* Largest time-to-live a cache instance is built with.
MaxTtl == 2

\* similarity_threshold: float = 0.95, in hundredths.
DefaultThreshold == 95

\* The texts that are cached and looked up.
Queries == {"qa", "qb", "qc"}

\* The thresholds passed to get explicitly, in hundredths.
ThresholdArgs == {0}

\* The embedding provider: a fixed vector per text.  qa and qb are close
\* (cosine 0.96), qa and qc are orthogonal, qb and qc point apart (-0.28).
Embedding(text) ==
    CASE text = "qa" -> <<3, 4>>
      [] text = "qb" -> <<4, 3>>
      [] text = "qc" -> <<-4, 3>>

\* _get_embedding: None (the empty vector here) without a client or when the
\* provider call fails.
GetEmbedding(c, text, api_ok) ==
    IF ~c.openai_client THEN <<>>
    ELSE IF ~api_ok THEN <<>>
    ELSE Embedding(text)

Dot(v1, v2) == v1[1] * v2[1] + v1[2] * v2[2]

\* np.linalg.norm, for the vectors of integer norm used here.
Norm(v) == CHOOSE n \in 0..Dot(v, v) : n * n = Dot(v, v)

\* _cosine_similarity, in hundredths (exact for the vectors used here).
CosineSimilarity(v1, v2) ==
    IF Norm(v1) = 0 \/ Norm(v2) = 0 THEN 0
    ELSE (Dot(v1, v2) * 100) \div (Norm(v1) * Norm(v2))

\* hashlib.md5(query.encode()).hexdigest(): one key per query text.
CacheKey(query) == query

\* json.dumps raises TypeError on a langchain Document.
JsonSerializable(v) == v.kind # "documents"

\* SemanticCache.__init__ without the connection test: the client object is
\* kept and the cache enabled whether or not the server answers.
SemanticCacheNoPing(ttl, threshold, ping_ok, has_key) ==
    [ttl |-> ttl, similarity_threshold |-> threshold,
     redis_client |-> TRUE, openai_client |-> has_key,
     enabled |-> has_key, ping_ok |-> ping_ok, has_key |-> has_key]

\* SemanticCache.__init__.  ping_ok: the Redis server answers the ping;
\* has_key: the OpenAI library and an API key are there.  The fields ping_ok
\* and has_key only record the two inputs.
SemanticCache(ttl, threshold, ping_ok, has_key) ==
    [ttl |-> ttl, similarity_threshold |-> threshold,
     redis_client |-> ping_ok, openai_client |-> has_key,
     enabled |-> ping_ok /\ has_key, ping_ok |-> ping_ok, has_key |-> has_key]

\* A write that forgets the expiry (SET in place of SETEX).
RedisSetNoExpiry(store, key, ttl, result, t) ==
    [ok |-> TRUE,
     store |-> (key :> [result |-> result, due |-> t + ttl, expires_at |-> -1]) @@ store]

\* redis_client.setex(cache_key, self.ttl, data) at time t.  Redis rejects a
\* time-to-live that is not positive ("invalid expire time"); otherwise the
\* key expires at t + ttl.  due is when the entry is meant to expire.
RedisSetex(store, key, ttl, result, t) ==
    IF ttl <= 0 THEN [ok |-> FALSE, store |-> store]
    ELSE [ok |-> TRUE,
          store |-> (key :> [result |-> result, due |-> t + ttl, expires_at |-> t + ttl])
                        @@ store]

\* Redis drops a key once its expiry time is reached.
Expired(entry, t) == entry.expires_at >= 0 /\ entry.expires_at <= t

LiveStore(store, t) ==
    [k \in {x \in DOMAIN store : ~Expired(store[x], t)} |-> store[k]]

\* The body of the scan loop of get for one key whose value was read.
\* similarity > best_similarity and similarity >= current_threshold
\* seen, stale_read: the similarity and result of every entry read, and
\* whether an entry was read at or after the time it was due to expire.
GetStep(g, key, entry, t) ==
    LET similarity == CosineSimilarity(Embedding(g.query), Embedding(key))
        better     == similarity > g.best_similarity
                        /\ similarity >= g.current_threshold
    IN  [g EXCEPT !.keys = g.keys \ {key},
                  !.seen = g.seen \cup {<<similarity, entry.result>>},
                  !.stale_read = g.stale_read \/ entry.due <= t,
                  !.best_similarity = IF better THEN similarity ELSE g.best_similarity,
                  !.best_result = IF better THEN entry.result ELSE g.best_result]

\* current_threshold = threshold if threshold is not None else
\* self.similarity_threshold.  arg is <<>> for None, <<t>> for t.
CurrentThreshold(c, arg) == IF arg = <<>> THEN c.similarity_threshold ELSE arg[1]

GetReturn(g, val, touched) ==
    /\ get_st' = [g EXCEPT !.pc = "done"]
    /\ ret' = [op |-> "get", val |-> val, ok |-> val # NoneValue, touched |-> touched]

\* What SemanticCache.set(query, result) does on instance c at time t:
\* the value it returns, the store afterwards and whether a Redis command
\* was sent.  api_ok: the embedding call succeeds; redis_ok: the server is
\* reachable.
SetOutcome(c, store, query, result, t, api_ok, redis_ok) ==
    IF ~c.enabled \/ ~c.redis_client
    THEN [ok |-> FALSE, store |-> store, touched |-> FALSE]
    ELSE IF GetEmbedding(c, query, api_ok) = <<>>
    THEN [ok |-> FALSE, store |-> store, touched |-> FALSE]
    ELSE IF ~JsonSerializable(result)
    THEN [ok |-> FALSE, store |-> store, touched |-> FALSE]
    ELSE IF ~redis_ok
    THEN [ok |-> FALSE, store |-> store, touched |-> TRUE]
    ELSE LET w == RedisSetex(store, CacheKey(query), c.ttl, result, t)
         IN  [ok |-> w.ok, store |-> w.store, touched |-> TRUE]

\* A new SemanticCache instance replaces the one in use.
Construct(ttl, ping_ok, has_key) ==
    /\ get_st.pc # "scan"
    /\ cache' = SemanticCache(ttl, DefaultThreshold, ping_ok, has_key)
    /\ get_st' = NoGet
    /\ ret' = NoRet
    /\ last_set' = NoSet
    /\ UNCHANGED <<redis_store, now>>
    /\ UNCHANGED not_cache

\* SemanticCache.set(query, result)
CacheSet(query, result, api_ok, redis_ok) ==
    /\ cache # NoCache
    /\ get_st.pc # "scan"
    /\ LET o == SetOutcome(cache, redis_store, query, result, now, api_ok, redis_ok)
       IN  /\ redis_store' = o.store
           /\ ret' = [op |-> "set", val |-> NoneValue, ok |-> o.ok, touched |-> o.touched]
    /\ last_set' = [valid |-> api_ok /\ redis_ok, query |-> query, value |-> result]
    /\ get_st' = NoGet
    /\ UNCHANGED <<now, cache>>
    /\ UNCHANGED not_cache

\* SemanticCache.get(query, threshold) up to the start of the key scan.
GetBegin(query, arg, api_ok, redis_ok) ==
    /\ cache # NoCache
    /\ get_st.pc # "scan"
    /\ LET g == [NoGet EXCEPT !.query = query,
                              !.has_threshold = (arg # <<>>),
                              !.current_threshold = CurrentThreshold(cache, arg),
                              !.healthy = api_ok /\ redis_ok,
                              !.after_set = last_set.valid /\ last_set.query = query,
                              !.set_value = IF last_set.valid /\ last_set.query = query
                                            THEN last_set.value ELSE NoneValue]
       IN  IF ~cache.enabled \/ ~cache.redis_client
           THEN GetReturn(g, NoneValue, FALSE)
           ELSE IF GetEmbedding(cache, query, api_ok) = <<>>
           THEN GetReturn(g, NoneValue, FALSE)
           ELSE IF ~redis_ok
           THEN GetReturn(g, NoneValue, TRUE)
           ELSE /\ get_st' = [g EXCEPT !.pc = "scan", !.keys = DOMAIN redis_store]
                /\ ret' = [NoRet EXCEPT !.op = "get", !.touched = TRUE]
    /\ last_set' = NoSet
    /\ UNCHANGED <<redis_store, now, cache>>
    /\ UNCHANGED not_cache

\* One iteration of the scan loop: redis_client.get(key), then the
\* comparison.  A key that expired since the scan reads as nothing and is
\* skipped, as is a key whose read raises.
GetRead(key, read_ok) ==
    /\ get_st.pc = "scan"
    /\ key \in get_st.keys
    /\ get_st' =
          IF ~read_ok
          THEN [get_st EXCEPT !.keys = get_st.keys \ {key}, !.healthy = FALSE]
          ELSE IF key \notin DOMAIN redis_store
          THEN [get_st EXCEPT !.keys = get_st.keys \ {key}, !.skipped = TRUE]
          ELSE GetStep(get_st, key, redis_store[key], now)
    /\ UNCHANGED <<redis_store, now, cache, ret, last_set>>
    /\ UNCHANGED not_cache

\* The end of get: best_result if there is one, else None.
GetEnd ==
    /\ get_st.pc = "scan"
    /\ get_st.keys = {}
    /\ GetReturn(get_st, get_st.best_result, TRUE)
    /\ UNCHANGED <<redis_store, now, cache, last_set>>
    /\ UNCHANGED not_cache

\* Time passes on the Redis server; expired keys are gone.  A get that
\* follows is no longer immediately after the last set.
Tick ==
    /\ now < MaxTime
    /\ now' = now + 1
    /\ redis_store' = LiveStore(redis_store, now + 1)
    /\ last_set' = NoSet
    /\ get_st' = [get_st EXCEPT !.after_set = FALSE, !.set_value = NoneValue]
    /\ UNCHANGED <<cache, ret>>
    /\ UNCHANGED not_cache

\* The values given to set: a learning path dict (LearningPathGenerator) or
\* the documents of a search (advanced_rag_search).
SetValues == PathValues \cup {DocsValue(<<"a">>)}

CacheInit ==
    /\ ToolsIdle
    /\ FusionIdle /\ RagIdle /\ RepairIdle
    /\ WriteIdle /\ RerankerIdle /\ Bm25Idle /\ HybridIdle /\ StoreIdle
    /\ PipelineIdle
    /\ CacheIdle

\* The cache with every service answering: only the time-to-live varies.
CacheNext ==
    \/ \E ttl \in 0..MaxTtl : Construct(ttl, TRUE, TRUE)
    \/ \E q \in Queries, v \in SetValues : CacheSet(q, v, TRUE, TRUE)
    \/ \E q \in Queries, arg \in {<<>>} \cup {<<t>> : t \in ThresholdArgs} :
          GetBegin(q, arg, TRUE, TRUE)
    \/ \E key \in Queries : GetRead(key, TRUE)
    \/ GetEnd
    \/ Tick

SpecCache == CacheInit /\ [][CacheNext]_vars

\* The cache with services that can be down when the instance is built or
\* when it is used; the clock stands still.
FaultNext ==
    \/ \E ping_ok \in BOOLEAN, has_key \in BOOLEAN : Construct(MaxTtl, ping_ok, has_key)
    \/ \E q \in Queries, v \in SetValues, api_ok \in BOOLEAN, redis_ok \in BOOLEAN :
          CacheSet(q, v, api_ok, redis_ok)
    \/ \E q \in Queries, api_ok \in BOOLEAN, redis_ok \in BOOLEAN :
          GetBegin(q, <<>>, api_ok, redis_ok)
    \/ \E key \in Queries, read_ok \in BOOLEAN : GetRead(key, read_ok)
    \/ GetEnd

SpecCacheFaults == CacheInit /\ [][FaultNext]_vars

(***************************************************************************)
(* Claims about the semantic cache                                         *)
(***************************************************************************)
\* The entries a finished get has read whose similarity meets the threshold.
Qualifying == {p \in get_st.seen : p[1] >= get_st.current_threshold}

ScanFinished == get_st.pc = "done" /\ ret.op = "get" /\ ret.touched /\ get_st.healthy

\* C5: get returns the value of an entry of highest similarity among the
\* entries that meet or exceed the threshold, and returns a miss exactly
\* when no entry meets or exceeds the threshold.
C5_GetReturnsBest ==
    ScanFinished =>
        /\ ret.val = NoneValue <=> Qualifying = {}
        /\ Qualifying # {} =>
              \E p \in Qualifying :
                  /\ p[2] = ret.val
                  /\ \A o \in Qualifying : o[1] <= p[1]

\* C6: on an enabled cache with a positive time-to-live, set(q, v) followed
\* immediately by get(q) with the default threshold returns v, and a get
\* for which every cached key is below the threshold returns a miss.
C6_SetThenGet ==
    (ScanFinished /\ cache.enabled /\ cache.ttl > 0) =>
        /\ (get_st.after_set /\ ~get_st.has_threshold) => ret.val = get_st.set_value
        /\ Qualifying = {} => ret.val = NoneValue

\* C7: get never reads, and so never returns, an entry at or after the time
\* it was due to expire, and the store holds no such entry: one written
\* with ttl = 0 would be due at once.
C7_NoExpiredEntryReturned ==
    /\ ~get_st.stale_read
    /\ \A k \in DOMAIN redis_store : redis_store[k].due > now

\* A get returned a miss after a key of its scan had expired before its
\* value was read.
C7_Witness ==
    /\ get_st.pc = "done"
    /\ get_st.skipped
    /\ get_st.seen = {}
    /\ ret.val = NoneValue

\* C8: an instance built while the store did not answer or without an
\* embedding provider is disabled, and each get and set on it returns miss
\* or failure without sending a command to the store.
C8_DisabledForLife ==
    (cache # NoCache /\ ~(cache.ping_ok /\ cache.has_key)) =>
        /\ ~cache.enabled
        /\ get_st.pc # "scan"
        /\ ret.op \in {"get", "set"} =>
              /\ ret.val = NoneValue
              /\ ~ret.ok
              /\ ~ret.touched

\* A get on an instance built while Redis was down returned a miss although
\* the store holds an entry for that very query and every service answers.
C8_Witness ==
    /\ cache.has_key /\ ~cache.ping_ok
    /\ ret.op = "get" /\ get_st.pc = "done" /\ get_st.healthy
    /\ get_st.query \in DOMAIN redis_store
    /\ ret.val = NoneValue

(***************************************************************************)
(* advanced_rag_search (src/data/document_store.py)                        *)
(***************************************************************************)
\* Most documents one retriever returns for a query.
MaxHits == 2

\* HYBRID_TOP_K and RERANK_TOP_K of src/utils/config.py.
HybridTopK == 20
RerankTopK == 5

\* The page contents of the documents of the searched collection.
RagContents == {"a", "b"}

\* The values of top_k the callers pass.
TopKs == {1, 3}

Prefix(seq, n) == SubSeq(seq, 1, Min(n, Len(seq)))

Reverse(seq) == [i \in 1..Len(seq) |-> seq[Len(seq) + 1 - i]]

DocumentsOf(results) == [i \in 1..Len(results) |-> results[i].document]

\* The scan loop of get run to its end over the keys of the store.
RECURSIVE ScanAll(_, _, _)
ScanAll(g, store, t) ==
    IF g.keys = {} THEN g
    ELSE LET key == CHOOSE k \in g.keys : TRUE
         IN  ScanAll(GetStep(g, key, store[key], t), store, t)

\* SemanticCache.get(query) on instance c, in one step.
CacheGet(c, store, query, t, api_ok, redis_ok) ==
    IF ~c.enabled \/ ~c.redis_client THEN NoneValue
    ELSE IF GetEmbedding(c, query, api_ok) = <<>> THEN NoneValue
    ELSE IF ~redis_ok THEN NoneValue
    ELSE ScanAll([NoGet EXCEPT !.query = query,
                               !.current_threshold = CurrentThreshold(c, <<>>),
                               !.keys = DOMAIN store], store, t).best_result

\* A hit that does not end the call.
FallsThrough(cached_result) == FALSE

\* if cached_result: return cached_result
CacheHitReturns(cached_result) == Truthy(cached_result)

\* The fusion step of advanced_rag_search and the cut to HYBRID_TOP_K.
Candidates(bm25_results, semantic_results) ==
    LET fused ==
            IF bm25_results # <<>> /\ semantic_results # <<>>
            THEN reciprocal_rank_fusion(<<bm25_results, semantic_results>>, DefaultK)
            ELSE IF bm25_results # <<>> THEN bm25_results
            ELSE semantic_results
    IN  DocumentsOf(Prefix(fused, HybridTopK))

\* LearningPathGenerator stores a learning path under its signature, on its
\* own enabled instance (self.semantic_cache.set(semantic_signature,
\* learning_path.dict())), between two searches.
PathCacheSet(signature, path) ==
    /\ rag.pc \in {"idle", "returned"}
    /\ redis_store' =
          SetOutcome(SemanticCache(MaxTtl, DefaultThreshold, TRUE, TRUE),
                     redis_store, signature, path, now, TRUE, TRUE).store
    /\ rag' = NoRag
    /\ cache' = NoCache
    /\ UNCHANGED <<now, get_st, ret, last_set>>
    /\ UNCHANGED not_rag

\* advanced_rag_search(query, top_k=top_k, use_cache=use_cache) is called;
\* enable_cache is ENABLE_SEMANTIC_CACHE.  cache is the cache_client of the
\* call, not yet built.
RagStart(query, top_k, use_cache, enable_cache) ==
    /\ rag.pc \in {"idle", "returned"}
    /\ rag' = [NoRag EXCEPT !.pc = "cache_check", !.query = query, !.top_k = top_k,
                            !.use_cache = use_cache /\ enable_cache]
    /\ cache' = NoCache
    /\ UNCHANGED <<redis_store, now, get_st, ret, last_set>>
    /\ UNCHANGED not_rag

\* Step 1: a SemanticCache is built and asked for the query.
RagCacheCheck(ping_ok, has_key) ==
    /\ rag.pc = "cache_check"
    /\ IF rag.use_cache
       THEN LET c == SemanticCache(MaxTtl, DefaultThreshold, ping_ok, has_key)
                cached_result == CacheGet(c, redis_store, rag.query, now, TRUE, TRUE)
            IN  /\ cache' = c
                /\ rag' = IF CacheHitReturns(cached_result)
                          THEN [rag EXCEPT !.pc = "returned",
                                           !.cache_on = c.enabled,
                                           !.hit = cached_result # NoneValue,
                                           !.cached_result = cached_result,
                                           !.stages = <<"cache_check">>,
                                           !.result = cached_result]
                          ELSE [rag EXCEPT !.pc = "rewrite",
                                           !.cache_on = c.enabled,
                                           !.hit = cached_result # NoneValue,
                                           !.cached_result = cached_result,
                                           !.stages = <<"cache_check">>]
       ELSE /\ rag' = [rag EXCEPT !.pc = "rewrite"]
            /\ UNCHANGED cache
    /\ UNCHANGED <<redis_store, now, get_st, ret, last_set>>
    /\ UNCHANGED not_rag

\* Step 2: the rewriter is called when QUERY_REWRITE_ENABLED is set.  The
\* text it returns is used for the retrieval only, whose results are inputs
\* here; the cache is written under the original query.
RagRewrite(enabled) ==
    /\ rag.pc = "rewrite"
    /\ rag' = [rag EXCEPT !.pc = "retrieve",
                          !.stages = IF enabled THEN Append(rag.stages, "rewrite")
                                     ELSE rag.stages]
    /\ UNCHANGED cache_vars
    /\ UNCHANGED not_rag

\* Step 3: keyword and vector retrieval with the fusion of the two lists.
RagRetrieve(bm25_contents, semantic_contents) ==
    /\ rag.pc = "retrieve"
    /\ rag' = [rag EXCEPT
          !.pc = "rerank",
          !.candidate_docs = Candidates(MkResults(bm25_contents, "bm25"),
                                        MkResults(semantic_contents, "semantic")),
          !.stages = Append(rag.stages, "retrieve")]
    /\ UNCHANGED cache_vars
    /\ UNCHANGED not_rag

\* Step 4: reranking.  outcome "off": RERANK_ENABLED is false; "raise": the
\* reranker raises; "keep", "reorder": it returns its first RERANK_TOP_K
\* documents in the given or in another order.
RagRerank(outcome) ==
    /\ rag.pc = "rerank"
    /\ LET docs == rag.candidate_docs
           after ==
              IF outcome = "off" \/ docs = <<>> THEN Prefix(docs, rag.top_k)
              ELSE IF outcome = "raise" THEN Prefix(docs, RerankTopK)
              ELSE IF outcome = "keep" THEN Prefix(docs, RerankTopK)
              ELSE Reverse(Prefix(docs, RerankTopK))
       IN  rag' = [rag EXCEPT !.pc = "compress", !.candidate_docs = after,
                              !.stages = IF outcome = "off" \/ docs = <<>>
                                         THEN rag.stages
                                         ELSE Append(rag.stages, "rerank")]
    /\ UNCHANGED cache_vars
    /\ UNCHANGED not_rag

\* Step 5: contextual compression; the documents keep their place.  The
\* stage is skipped when it is off or there is nothing to compress.
RagCompress(enabled) ==
    /\ rag.pc = "compress"
    /\ rag' = [rag EXCEPT !.pc = "cache_write",
                          !.stages = IF enabled /\ rag.candidate_docs # <<>>
                                     THEN Append(rag.stages, "compress")
                                     ELSE rag.stages]
    /\ UNCHANGED cache_vars
    /\ UNCHANGED not_rag

\* The cache write and the return: cache_client.set(original_query,
\* final_docs) when caching is on and there are documents.  hit_after: the
\* same query, asked again at the return, would get these documents from the
\* cache.
RagCacheWrite ==
    /\ rag.pc = "cache_write"
    /\ LET final_docs == rag.candidate_docs
           writes == rag.use_cache /\ final_docs # <<>>
           store_after ==
                 IF writes
                 THEN SetOutcome(cache, redis_store, rag.query, DocsValue(final_docs),
                                 now, TRUE, TRUE).store
                 ELSE redis_store
       IN  /\ redis_store' = store_after
           /\ rag' = [rag EXCEPT !.pc = "returned", !.result = DocsValue(final_docs),
                                 !.hit_after =
                                    rag.use_cache /\
                                    CacheGet(cache, store_after, rag.query, now, TRUE, TRUE)
                                        = DocsValue(final_docs),
                                 !.stages = IF writes
                                            THEN Append(rag.stages, "cache_write")
                                            ELSE rag.stages]
    /\ UNCHANGED <<now, cache, get_st, ret, last_set>>
    /\ UNCHANGED not_rag

RagInit ==
    /\ ToolsIdle
    /\ FusionIdle /\ CacheIdle /\ RepairIdle
    /\ WriteIdle /\ RerankerIdle /\ Bm25Idle /\ HybridIdle /\ StoreIdle
    /\ PipelineIdle
    /\ RagIdle

RagNext ==
    \/ \E q \in Queries, p \in PathValues : PathCacheSet(q, p)
    \/ \E q \in Queries, k \in TopKs, use_cache \in BOOLEAN, enable_cache \in BOOLEAN :
          RagStart(q, k, use_cache, enable_cache)
    \/ \E ping_ok \in BOOLEAN, has_key \in BOOLEAN : RagCacheCheck(ping_ok, has_key)
    \/ \E enabled \in BOOLEAN : RagRewrite(enabled)
    \/ \E kw \in SeqUpTo(RagContents, MaxHits), sem \in SeqUpTo(RagContents, MaxHits) :
          RagRetrieve(kw, sem)
    \/ \E outcome \in {"off", "raise", "keep", "reorder"} : RagRerank(outcome)
    \/ \E enabled \in BOOLEAN : RagCompress(enabled)
    \/ RagCacheWrite

SpecRag == RagInit /\ [][RagNext]_vars

(***************************************************************************)
(* Claims about the cache in advanced_rag_search                           *)
(***************************************************************************)
\* C3: with the cache enabled and available, a call that missed and whose
\* pipeline produced documents has stored them under the original query by
\* the time it returns, so that the same query would now hit.
C3_MissIsCached ==
    (rag.pc = "returned" /\ rag.use_cache /\ rag.cache_on /\ ~rag.hit
        /\ rag.result.kind = "documents" /\ rag.result.docs # <<>>) =>
        rag.hit_after

\* C4: when the cache check is a hit, the call returns the cached value and
\* runs no stage after the check: no rewriting, retrieval, fusion,
\* reranking, compression or cache write.
C4_HitShortCircuits ==
    rag.hit =>
        /\ rag.pc = "returned"
        /\ rag.stages = <<"cache_check">>
        /\ rag.cached_result # NoneValue
        /\ rag.result = rag.cached_result

\* A call returned the learning path cached under a similar, different text.
C4_Witness ==
    /\ rag.pc = "returned"
    /\ rag.hit
    /\ rag.result \in PathValues
    /\ CacheKey(rag.query) \notin DOMAIN redis_store

(***************************************************************************)
(* Schema repair and search_documents (src/data/document_store.py)         *)
(***************************************************************************)
\* Longest text that follows the prefix in an error message.
MaxTail == 4

\* Most documents the engine returns for a query.
MaxDocs == 2

\* A text is a sequence of one-character strings.
\* missing_prefix = "no such column: "
MissingPrefix ==
    <<"n", "o", " ", "s", "u", "c", "h", " ", "c", "o", "l", "u", "m", "n", ":", " ">>

\* The letters and digits of the alphabet used here (str.isalnum).
AlnumChars == {"n", "o", "s", "u", "c", "h", "l", "m", "t", "x", "1"}

\* ch.isalnum() or ch == '_'
IsSafeChar(ch) == ch \in AlnumChars \/ ch = "_"

\* The characters removed by strip of the quote characters (double quote,
\* back quote, square brackets); the double quote is written Q and the back
\* quote B.
QuoteChars == {"Q", "B", "[", "]"}

\* str.split() separates at white space.
IsSpace(ch) == ch = " "

\* The index of the first occurrence of part in text, 0 if there is none.
Find(part, text) ==
    LET hits == {i \in 1..(Len(text) - Len(part) + 1) :
                    SubSeq(text, i, i + Len(part) - 1) = part}
    IN  IF hits = {} THEN 0 ELSE CHOOSE i \in hits : \A j \in hits : i <= j

\* text.split(part, 1)[1], for a text that contains part.
AfterFirst(part, text) == SubSeq(text, Find(part, text) + Len(part), Len(text))

\* text.split()[0]: the first run of characters that are not white space;
\* the empty text stands for the IndexError of a text without any.
FirstToken(text) ==
    LET starts == {i \in 1..Len(text) : ~IsSpace(text[i])}
    IN  IF starts = {} THEN <<>>
        ELSE LET b == CHOOSE i \in starts : \A j \in starts : i <= j
                 ends == {i \in b..Len(text) :
                             i = Len(text) \/ IsSpace(text[i + 1])}
                 e == CHOOSE i \in ends : \A j \in ends : i <= j
             IN  SubSeq(text, b, e)

\* text.strip(quote characters)
Strip(text) ==
    LET keep == {i \in 1..Len(text) : text[i] \notin QuoteChars}
    IN  IF keep = {} THEN <<>>
        ELSE SubSeq(text, CHOOSE i \in keep : \A j \in keep : i <= j,
                          CHOOSE i \in keep : \A j \in keep : i >= j)

\* ''.join(ch for ch in name if ch.isalnum() or ch == '_')
RECURSIVE SafeName(_)
SafeName(name) ==
    IF name = <<>> THEN <<>>
    ELSE IF IsSafeChar(Head(name)) THEN <<Head(name)>> \o SafeName(Tail(name))
    ELSE SafeName(Tail(name))

\* A validation that compares nothing: the filtered names always pass.
NoNameCheck(table_name, column_name) == TRUE

\* not (safe_table != table_name or safe_column != column_name)
NamesAreSafe(table_name, column_name) ==
    SafeName(table_name) = table_name /\ SafeName(column_name) = column_name

\* What the ALTER statement does: SQLite accepts it, answers an
\* OperationalError (no such table, duplicate column, locked file), or
\* answers another DatabaseError (chroma.sqlite3 is not a database).
AlterOutcomes == {"ok", "OperationalError", "DatabaseError"}

\* The result of a repair that executes nothing.
NotRepaired == [ret |-> FALSE, statements |-> <<>>, raised |-> FALSE]

\* _try_repair_collection_schema(error) for str(error) = message.
\* db_exists: chroma.sqlite3 is there; alter: what the ALTER does (a
\* statement without a table name is a syntax error, an OperationalError).
\* statements: the ALTER statements executed, each as the table and the
\* column it names; raised: the call ends with an exception.
TryRepair(message, db_exists, alter) ==
    IF Find(MissingPrefix, message) = 0 THEN NotRepaired
    ELSE
    LET token == FirstToken(AfterFirst(MissingPrefix, message))
        parts == Strip(token)
        dot   == Find(<<".">>, parts)
        table_name  == SubSeq(parts, 1, dot - 1)
        column_name == SubSeq(parts, dot + 1, Len(parts))
        outcome == IF table_name = <<>> /\ alter = "ok"
                   THEN "OperationalError" ELSE alter
    IN  IF token = <<>> THEN NotRepaired
        ELSE IF dot = 0 THEN NotRepaired
        ELSE IF ~NamesAreSafe(table_name, column_name) THEN NotRepaired
        ELSE IF ~db_exists THEN NotRepaired
        ELSE [ret |-> outcome = "ok",
              statements |-> <<[table |-> SafeName(table_name),
                                column |-> SafeName(column_name)]>>,
              raised |-> outcome = "DatabaseError"]

\* One call of _try_repair_collection_schema.
RepairCall(message, db_exists, alter) ==
    /\ RepairIdle
    /\ LET r == TryRepair(message, db_exists, alter)
       IN  rep' = [pc |-> "done", message |-> message, db_exists |-> db_exists,
                   statements |-> r.statements, ret |-> r.ret,
                   raised |-> r.raised]
    /\ UNCHANGED sd
    /\ UNCHANGED not_repair

\* The caller takes the answer; the store is ready for the next call.
RepairReturn ==
    /\ rep.pc = "done" \/ sd.pc = "done"
    /\ rep' = NoRep
    /\ sd' = NoSd
    /\ UNCHANGED not_repair

\* The characters of the text after the prefix.
TailChars == {"t", "_", ".", " ", "B"}

\* The error messages given to the repair: with the prefix or without it,
\* alone or inside a longer message.
Messages ==
    {h \o m \o t : h \in {<<>>, <<"x", ":", " ">>},
                   m \in {<<>>, MissingPrefix},
                   t \in SeqUpTo(TailChars, MaxTail)}

\* The error messages of the engine in search_documents: another error, a
\* missing column with safe names, one with an unsafe name, one without a
\* column.
EngineMessages ==
    {<<"x">>,
     MissingPrefix \o <<"t", ".", "t">>,
     MissingPrefix \o <<"t", ";", ".", "t">>,
     MissingPrefix \o <<"t">>}

\* The distances the engine reports, in hundredths.
Distances == {0, 200}

\* The entries of a query result: a content and its distance.
ResultEntries == [content : {"a", "b"}, distance : Distances]

\* relevance_score = 1.0 - (distance / 2.0), in hundredths.
RelevanceScore(distance) == 100 - distance \div 2

\* The conversion of result entries offset .. offset + top_k - 1 (0-based)
\* to documents.
ToDocuments(result, top_k, offset) ==
    LET last == Min(offset + top_k, Len(result))
    IN  [i \in 1..Max(last - offset, 0) |->
            [page_content |-> result[offset + i].content,
             relevance_score |-> RelevanceScore(result[offset + i].distance)]]

\* _initialize_collection(name): get_or_create_collection, and after a
\* failure one repair and, if it succeeded, one more get_or_create_collection.
\* first and second say what the two calls of the engine do.
InitializeCollection(first, second, db_exists, alter) ==
    IF first.ok THEN [ok |-> TRUE, statements |-> <<>>]
    ELSE LET r == TryRepair(first.message, db_exists, alter)
         IN  [ok |-> r.ret /\ second.ok, statements |-> r.statements]

\* if self._try_repair_collection_schema(e): retry the query
RetryAfter(repair) == repair.ret

\* search_documents(query, collection_name, filters, top_k, offset).
\* first, second: what get_or_create_collection does; q1, q2: what the
\* engine's query does, success or an error with its message; result: the
\* entries a successful query returns.
SearchDocuments(first, second, q1, q2, db_exists, alter, result, top_k, offset) ==
    /\ RepairIdle
    /\ LET coll == InitializeCollection(first, second, db_exists, alter)
           failed == coll.ok /\ ~q1.ok
           r == IF failed THEN TryRepair(q1.message, db_exists, alter)
                ELSE NotRepaired
           retried == failed /\ ~r.raised /\ RetryAfter(r)
           answered == coll.ok /\ (q1.ok \/ (retried /\ q2.ok))
       IN  sd' = [pc |-> "done",
                  collection_ok |-> coll.ok,
                  query_calls |-> IF ~coll.ok THEN 0
                                  ELSE IF retried THEN 2 ELSE 1,
                  query_failed |-> failed,
                  repair_calls |-> IF failed THEN 1 ELSE 0,
                  repaired |-> r.ret,
                  retry_failed |-> retried /\ ~q2.ok,
                  statements |-> coll.statements \o r.statements,
                  documents |-> IF answered
                                THEN ToDocuments(result, top_k, offset)
                                ELSE <<>>,
                  raised |-> failed /\ r.raised]
    /\ UNCHANGED rep
    /\ UNCHANGED not_repair

\* The results of the engine's query.
QueryResults == SeqUpTo(ResultEntries, MaxDocs)

\* What a call to the engine does.
EngineOutcomes ==
    {[ok |-> TRUE, message |-> <<>>]}
        \cup {[ok |-> FALSE, message |-> m] : m \in EngineMessages}

\* What the call after a repair does: it succeeds or fails again.
RetryOutcomes == {o \in EngineOutcomes : o.ok \/ o.message = <<"x">>}

RepairInit ==
    /\ ToolsIdle
    /\ FusionIdle
    /\ CacheIdle
    /\ RagIdle
    /\ RepairIdle
    /\ WriteIdle /\ RerankerIdle /\ Bm25Idle /\ HybridIdle /\ StoreIdle
    /\ PipelineIdle

RepairNext ==
    \/ /\ RepairIdle
       /\ \E message \in Messages, db_exists \in BOOLEAN, alter \in AlterOutcomes :
             RepairCall(message, db_exists, alter)
    \/ /\ RepairIdle
       /\ \E first \in EngineOutcomes, second \in RetryOutcomes,
             q1 \in EngineOutcomes, q2 \in RetryOutcomes,
             db_exists \in BOOLEAN, alter \in AlterOutcomes,
             result \in QueryResults, top_k \in {1, 2}, offset \in {0, 1} :
             SearchDocuments(first, second, q1, q2, db_exists, alter,
                             result, top_k, offset)
    \/ RepairReturn

SpecRepair == RepairInit /\ [][RepairNext]_vars

(***************************************************************************)
(* Claims about the schema repair                                          *)
(***************************************************************************)
\* The table and the column the repair reads in a message that has the
\* prefix: the first word after the prefix, without its quotes, cut at its
\* first dot; none if there is no such word or no dot in it.
ParsedNames(message) ==
    LET parts == Strip(FirstToken(AfterFirst(MissingPrefix, message)))
        dot == Find(<<".">>, parts)
    IN  IF dot = 0 THEN {}
        ELSE {[table |-> SubSeq(parts, 1, dot - 1),
               column |-> SubSeq(parts, dot + 1, Len(parts))]}

\* Every character of the name is a letter, a digit or an underscore.
OnlySafeChars(name) == \A i \in 1..Len(name) : IsSafeChar(name[i])

\* The message has the shape "no such column: <table>.<column>" with a
\* table and a column of letters, digits and underscores only.
Repairable(message) ==
    /\ Find(MissingPrefix, message) # 0
    /\ \E n \in ParsedNames(message) :
          OnlySafeChars(n.table) /\ OnlySafeChars(n.column)

C9_WitnessRefused ==
    /\ rep.pc = "done"
    /\ Find(MissingPrefix, rep.message) # 0
    /\ ParsedNames(rep.message) # {}
    /\ ~Repairable(rep.message)
    /\ rep.db_exists
    /\ rep.statements = <<>>

\* C10: in search_documents, when the engine query fails, schema repair is
\* invoked exactly once and the query is retried exactly once and only if the
\* repair succeeded, so at most two engine queries are issued per call; if
\* repair is not applicable or fails, or the retry fails, search_documents
\* returns an empty list and does not raise.
C10_RepairOnceRetryOnce ==
    sd.pc = "done" =>
        /\ sd.query_calls <= 2
        /\ sd.query_failed =>
              /\ sd.repair_calls = 1
              /\ sd.query_calls = (IF sd.repaired THEN 2 ELSE 1)
              /\ (~sd.repaired \/ sd.retry_failed) =>
                    sd.documents = <<>> /\ ~sd.raised

\* The parts of C10 that hold whatever the ALTER statement does.
C10_AtMostTwoQueries ==
    sd.pc = "done" =>
        /\ sd.query_calls <= 2
        /\ sd.query_failed =>
              /\ sd.repair_calls = 1
              /\ sd.query_calls = (IF sd.repaired THEN 2 ELSE 1)
              /\ (sd.retry_failed \/ (~sd.repaired /\ ~sd.raised)) =>
                    sd.documents = <<>>

C10_Witness ==
    /\ sd.pc = "done"
    /\ sd.query_failed
    /\ sd.repaired
    /\ sd.query_calls = 2
    /\ sd.documents # <<>>

(***************************************************************************)
(* Write operations of the store (src/data/document_store.py)              *)
(***************************************************************************)
\* The write operations.
WriteOps == {"add_document", "add_documents", "add_documents_batch", "delete_document"}

\* try: ... except Exception: return False / return []
CatchesAll(op) == op \in {"add_documents_batch", "delete_document"}

\* What an operation returns to say it did not succeed without raising.
FailureValue(op) == IF op = "delete_document" THEN "False" ELSE "empty"

\* What an operation returns on success: the id, the ids, or True.
SuccessValue(op) == IF op = "delete_document" THEN "True" ELSE "ids"

\* Most documents given to one write operation.
MaxWrite == 2

\* The page contents written, and their lengths.
WriteContents == {"a", "bb"}

ContentLen(content) == IF content = "a" THEN 1 ELSE 2

\* hash(content) % 1000000: equal contents have equal hashes, and the two
\* contents used here have different ones.
ContentHash(content) == content

\* f"doc_{len(content) % 10000}_{hash(content) % 1000000}"
AddDocumentId(content) == <<"doc", ContentLen(content) % 10000, ContentHash(content)>>

\* f"doc_{i}_{hash(doc.page_content) % 1000000}", i the 0-based position
BatchId(i, content) == <<"doc", i, ContentHash(content)>>

\* The ids an operation gives to its documents.
IdsOf(op, documents) ==
    IF op = "add_document" THEN <<AddDocumentId(documents[1])>>
    ELSE [i \in 1..Len(documents) |-> BatchId(i - 1, documents[i])]

\* One write operation with a non-empty argument that fits in one batch:
\* _initialize_collection, then one collection.add or collection.delete.
\* first, second: what get_or_create_collection does; w: what the write
\* call of the engine does.  repair_calls counts the repairs made for a
\* failure of the write call, statements the ALTER statements executed,
\* error the message of the error that ended the operation.
WriteResult(op, documents, first, second, w, db_exists, alter) ==
    LET coll == InitializeCollection(first, second, db_exists, alter)
        failed == ~coll.ok \/ ~w.ok
    IN  [pc |-> "done",
         op |-> op,
         documents |-> documents,
         write_calls |-> IF coll.ok THEN 1 ELSE 0,
         write_failed |-> coll.ok /\ ~w.ok,
         repair_calls |-> 0,
         statements |-> coll.statements,
         raised |-> failed /\ ~CatchesAll(op),
         error |-> IF ~failed THEN <<>>
                   ELSE IF coll.ok THEN w.message ELSE first.message,
         ret |-> IF ~failed THEN SuccessValue(op)
                 ELSE IF CatchesAll(op) THEN FailureValue(op)
                 ELSE "none",
         ids |-> IF ~failed /\ op # "delete_document"
                 THEN IdsOf(op, documents) ELSE <<>>]

\* The arguments of an operation: one content for add_document, the
\* content of the document whose id is deleted for delete_document, a
\* non-empty list of contents otherwise.
WriteArgs(op) ==
    IF op \in {"add_document", "delete_document"}
    THEN {<<c>> : c \in WriteContents}
    ELSE SeqUpTo(WriteContents, MaxWrite) \ {<<>>}

WriteCall(op, documents, first, second, w, db_exists, alter) ==
    /\ wr.pc = "idle"
    /\ wr' = WriteResult(op, documents, first, second, w, db_exists, alter)
    /\ UNCHANGED not_write

\* The caller takes the answer.
WriteReturn ==
    /\ wr.pc = "done"
    /\ wr' = NoWr
    /\ UNCHANGED not_write

WriteInit ==
    /\ ToolsIdle
    /\ FusionIdle /\ CacheIdle /\ RagIdle /\ RepairIdle
    /\ RerankerIdle /\ Bm25Idle /\ HybridIdle /\ StoreIdle
    /\ PipelineIdle
    /\ WriteIdle

WriteNext ==
    \/ /\ wr.pc = "idle"
       /\ \E op \in WriteOps, first \in EngineOutcomes, second \in RetryOutcomes,
             w \in EngineOutcomes, db_exists \in BOOLEAN, alter \in AlterOutcomes :
             \E documents \in WriteArgs(op) :
                WriteCall(op, documents, first, second, w, db_exists, alter)
    \/ WriteReturn

SpecWrite == WriteInit /\ [][WriteNext]_vars

(***************************************************************************)
(* Claims about the write operations                                       *)
(***************************************************************************)
\* C11: a write operation whose engine call fails triggers schema repair
\* once and, after a successful repair, one retry of the write; a write that
\* stays failed raises to the caller, it is not reported as an empty result
\* or a false status.
C11_WriteRepairsOrRaises ==
    wr.pc = "done" /\ wr.write_failed =>
        /\ wr.repair_calls = 1
        /\ wr.write_calls = 1 => wr.raised

\* The part of C11 the code keeps: add_document and add_documents let the
\* error of a failed write reach the caller.
C11_AddRaises ==
    wr.pc = "done" /\ wr.write_failed /\ ~CatchesAll(wr.op) => wr.raised


\* C23: the id the store assigns to a document is derived from its content
\* only: the same content added twice, at different positions of one call,
\* gets the same id.
C23_IdFromContentOnly ==
    wr.pc = "done" /\ wr.ids # <<>>
        => \A i, j \in 1..Len(wr.ids) :
              wr.documents[i] = wr.documents[j] => wr.ids[i] = wr.ids[j]

\* What the code does: the ids of one add_documents or add_documents_batch
\* call are all different, the position is part of them.
C23_IdsOfOneCallDiffer ==
    wr.pc = "done" /\ wr.ids # <<>>
        => \A i, j \in 1..Len(wr.ids) : i # j => wr.ids[i] # wr.ids[j]

(***************************************************************************)
(* Reranker (src/ml/reranker.py)                                           *)
(***************************************************************************)
\* Most documents given to one rerank call.
MaxRerank == 3

\* The placeholder score of a document that carries none, in hundredths:
\* doc.metadata.get('relevance_score', 0.5)
PlaceholderScore == 50

\* A langchain Document: its page content, and in its metadata the
\* relevance score if there is one, in hundredths.
Doc(content, has_score, score) ==
    [page_content |-> content,
     metadata |-> [has_score |-> has_score,
                   relevance_score |-> IF has_score THEN score ELSE 0]]

\* A lookup that never finds the score of the document.
MetaScoreDefault(doc, default) == default

\* doc.metadata.get('relevance_score', default)
MetaScore(doc, default) ==
    IF doc.metadata.has_score THEN doc.metadata.relevance_score ELSE default

\* Reranker.__init__(use_local, cohere_api_key, ...).  cohere_usable: the
\* cohere package is installed, a key is given and the client is built;
\* local_usable: sentence-transformers is installed and the model loads.
RerankerFields(use_local, cohere_usable, local_usable) ==
    IF use_local
    THEN [use_local |-> TRUE, cohere_client |-> FALSE, cross_encoder |-> local_usable]
    ELSE IF ~cohere_usable
    THEN [use_local |-> TRUE, cohere_client |-> FALSE, cross_encoder |-> local_usable]
    ELSE [use_local |-> FALSE, cohere_client |-> TRUE, cross_encoder |-> FALSE]

\* A fallback that does not cut the list at top_k.
OriginalOrderUncut(documents, top_k) ==
    [i \in 1..Len(documents) |->
        [document |-> documents[i],
         score |-> MetaScore(documents[i], PlaceholderScore),
         rank |-> i]]

\* The fallback of every path: the first top_k documents in input order.
OriginalOrder(documents, top_k) ==
    [i \in 1..Min(top_k, Len(documents)) |->
        [document |-> documents[i],
         score |-> MetaScore(documents[i], PlaceholderScore),
         rank |-> i]]

\* The orderings of 1..n, each as a sequence.
Orderings(n) ==
    {p \in [1..n -> 1..n] : \A i, j \in 1..n : i # j => p[i] # p[j]}

\* The score the remote service gives to its j-th result, in hundredths.
ServiceScore(j) == 100 - j

\* _rerank_cohere when the service answers: it returns top_n results, best
\* first, each with the index of a document; order is its ranking of the
\* documents.
RerankCohere(documents, top_k, order) ==
    [j \in 1..Min(top_k, Len(documents)) |->
        [document |-> documents[order[j]],
         score |-> ServiceScore(j),
         rank |-> j]]

\* scored_docs.sort(key=score, reverse=True): a stable sort of the positions
\* by score descending.
RECURSIVE SortByScore(_, _, _)
SortByScore(sorted, scores, i) ==
    IF i > Len(scores) THEN sorted
    ELSE LET p == Cardinality({j \in 1..Len(sorted) : scores[sorted[j]] >= scores[i]})
         IN  SortByScore(SubSeq(sorted, 1, p) \o <<i>> \o SubSeq(sorted, p + 1, Len(sorted)),
                         scores, i + 1)

\* _rerank_local when the model answers: scores[i] is the score of
\* documents[i].
RerankLocal(documents, top_k, scores) ==
    LET order == SortByScore(<<>>, scores, 1)
    IN  [j \in 1..Min(top_k, Len(documents)) |->
            [document |-> documents[order[j]],
             score |-> scores[order[j]],
             rank |-> j]]

\* The strategy rerank takes on an instance.
StrategyOf(r) ==
    IF r.use_local /\ r.cross_encoder THEN "local"
    ELSE IF r.cohere_client THEN "cohere"
    ELSE "none"

\* Reranker.rerank(query, documents, top_k) on instance r.  answer says what
\* the selected strategy does: it raises, or it ranks the documents (order
\* for the remote service, scores for the cross-encoder).
Rerank(r, documents, top_k, answer) ==
    IF documents = <<>> THEN <<>>
    ELSE IF StrategyOf(r) = "local"
    THEN IF answer.raises THEN OriginalOrder(documents, top_k)
         ELSE RerankLocal(documents, top_k, answer.scores)
    ELSE IF StrategyOf(r) = "cohere"
    THEN IF answer.raises THEN OriginalOrder(documents, top_k)
         ELSE RerankCohere(documents, top_k, answer.order)
    ELSE OriginalOrder(documents, top_k)

\* The documents given to rerank: with a score from the vector search, or
\* without one.
RerankDocs == {Doc("a", TRUE, 90), Doc("b", TRUE, 70), Doc("c", FALSE, 0)}

\* The scores of the cross-encoder, in hundredths.
LocalScores == {10, 20}

\* What a strategy can do with n documents: raise, or rank them.
Answers(n, strategy) ==
    {[raises |-> TRUE, order |-> <<>>, scores |-> <<>>]}
        \cup (IF strategy = "cohere"
              THEN {[raises |-> FALSE, order |-> p, scores |-> <<>>] : p \in Orderings(n)}
              ELSE {[raises |-> FALSE, order |-> <<>>, scores |-> s] :
                       s \in [1..n -> LocalScores]})

RerankerConstruct(use_local, cohere_usable, local_usable) ==
    /\ rr.pc = "idle"
    /\ LET f == RerankerFields(use_local, cohere_usable, local_usable)
       IN  rr' = [NoRr EXCEPT !.pc = "built",
                              !.preferred_local = use_local,
                              !.cohere_usable = cohere_usable,
                              !.local_usable = local_usable,
                              !.use_local = f.use_local,
                              !.cohere_client = f.cohere_client,
                              !.cross_encoder = f.cross_encoder]
    /\ UNCHANGED not_reranker

RerankCall(documents, top_k, answer) ==
    /\ rr.pc = "built"
    /\ rr' = [rr EXCEPT !.pc = "done",
                        !.documents = documents,
                        !.top_k = top_k,
                        !.strategy = IF documents = <<>> THEN "none" ELSE StrategyOf(rr),
                        !.strategy_raised = documents # <<>> /\ StrategyOf(rr) # "none"
                                                /\ answer.raises,
                        !.raised = FALSE,
                        !.result = Rerank(rr, documents, top_k, answer)]
    /\ UNCHANGED not_reranker

\* The caller takes the result; the instance stays.
RerankReturn ==
    /\ rr.pc = "done"
    /\ rr' = [rr EXCEPT !.pc = "built", !.documents = <<>>, !.top_k = 0,
                        !.strategy = "none", !.strategy_raised = FALSE,
                        !.result = <<>>]
    /\ UNCHANGED not_reranker

\* The instance is dropped: advanced_rag_search builds one per call.
RerankerDrop ==
    /\ rr.pc = "built"
    /\ rr' = NoRr
    /\ UNCHANGED not_reranker

RerankerInit ==
    /\ ToolsIdle
    /\ FusionIdle /\ CacheIdle /\ RagIdle /\ RepairIdle
    /\ WriteIdle /\ Bm25Idle /\ HybridIdle /\ StoreIdle
    /\ PipelineIdle
    /\ RerankerIdle

RerankerNext ==
    \/ \E use_local \in BOOLEAN, cohere_usable \in BOOLEAN, local_usable \in BOOLEAN :
          RerankerConstruct(use_local, cohere_usable, local_usable)
    \/ /\ rr.pc = "built"
       /\ \E documents \in SeqUpTo(RerankDocs, MaxRerank), top_k \in {1, 2} :
             \E answer \in Answers(Len(documents), StrategyOf(rr)) :
                RerankCall(documents, top_k, answer)
    \/ RerankReturn
    \/ RerankerDrop

SpecReranker == RerankerInit /\ [][RerankerNext]_vars

(***************************************************************************)
(* advanced_rag_search, retrieval to compression                           *)
(* (src/data/document_store.py)                                            *)
(***************************************************************************)
\* The page contents of the documents of the collection.
PipeContents == {"a", "b", "c"}

\* The relevance score search_documents gives to a content, in hundredths.
SemanticScore(content) ==
    CASE content = "a" -> 90
      [] content = "b" -> 70
      [] content = "c" -> 40

\* The documents collection.get() gives to the BM25 index: the stored
\* metadata, which holds no relevance score.
StoredDoc(content) == Doc(content, FALSE, 0)

\* bm25.search: results with the indexed documents, best first.
KeywordResults(contents) ==
    [i \in 1..Len(contents) |->
        [document |-> StoredDoc(contents[i]), score |-> 1, rank |-> i]]

\* The documents search_documents returns, best first.
SemanticDocs(contents) ==
    [i \in 1..Len(contents) |-> Doc(contents[i], TRUE, SemanticScore(contents[i]))]

\* semantic_results = [{'document': doc, 'score': ..., 'rank': i + 1} ...]
SemanticResults(docs) ==
    [i \in 1..Len(docs) |->
        [document |-> docs[i], score |-> MetaScore(docs[i], PlaceholderScore),
         rank |-> i]]

\* The values of HYBRID_TOP_K and RERANK_TOP_K: the defaults, and small
\* values set in the environment.
PipelineConfigs ==
    {[hybrid_top_k |-> HybridTopK, rerank_top_k |-> RerankTopK],
     [hybrid_top_k |-> 2, rerank_top_k |-> 1]}

\* The fusion step and the cut to hybrid_top_k candidates.
FusedCandidates(bm25_results, semantic_results, hybrid_top_k) ==
    LET fused ==
            IF bm25_results # <<>> /\ semantic_results # <<>>
            THEN reciprocal_rank_fusion(<<bm25_results, semantic_results>>, DefaultK)
            ELSE IF bm25_results # <<>> THEN bm25_results
            ELSE semantic_results
    IN  DocumentsOf(Prefix(fused, hybrid_top_k))

\* Step 3, hybrid retrieval.  get_ok: collection.get() answers; kw: the
\* contents bm25.search finds; bm25_raises: the keyword search raises; sem:
\* the contents search_documents finds (none when the vector search
\* failed); sem_raises: search_documents raises.  The except branch calls
\* search_documents again.
Retrieve(get_ok, kw, bm25_raises, sem, sem_raises, hybrid_top_k) ==
    LET bm25_results == IF get_ok THEN KeywordResults(Prefix(kw, hybrid_top_k)) ELSE <<>>
        semantic_docs == SemanticDocs(Prefix(sem, hybrid_top_k))
        in_except == (get_ok /\ kw # <<>> /\ bm25_raises) \/ sem_raises
    IN  IF ~in_except
        THEN [docs |-> FusedCandidates(bm25_results, SemanticResults(semantic_docs),
                                       hybrid_top_k),
              raised |-> FALSE]
        ELSE IF sem_raises THEN [docs |-> <<>>, raised |-> TRUE]
        ELSE [docs |-> semantic_docs, raised |-> FALSE]

\* Step 4, reranking.  mode "off": RERANK_ENABLED is false; "broken": the
\* Reranker cannot be built or rerank raises; "on": r is the instance built
\* and answer what its strategy does.
RerankStage(candidate_docs, top_k, rerank_top_k, mode, r, answer) ==
    IF mode = "off" \/ candidate_docs = <<>> THEN Prefix(candidate_docs, top_k)
    ELSE IF mode = "broken" THEN Prefix(candidate_docs, rerank_top_k)
    ELSE DocumentsOf(Rerank(r, candidate_docs, rerank_top_k, answer))

\* Step 5, contextual compression: the compressor returns the short
\* documents used here as they are, and a failure keeps candidate_docs.
CompressStage(candidate_docs, enabled, raises) == candidate_docs

\* The stages that failed in a call.  soft: the failing one, if any, of the
\* cache check, the rewriting and the compression.
FailedStages(soft, keyword_failed, vector_failed, rerank_failed) ==
    soft \cup {s \in {"keyword", "vector", "rerank"} :
                 \/ s = "keyword" /\ keyword_failed
                 \/ s = "vector" /\ vector_failed
                 \/ s = "rerank" /\ rerank_failed}

\* What the reranking stage does in a call.  "off": RERANK_ENABLED is
\* false; "broken": the Reranker cannot be built or rerank raises; "none":
\* the instance has no strategy; "raise", "keep", "turn": its strategy
\* raises on every call, keeps the order of the candidates, turns it round.
RerankKinds == {"off", "broken", "none", "raise", "keep", "turn"}

RerankMode(kind) ==
    IF kind \in {"off", "broken"} THEN kind ELSE "on"

\* The instance of a call: without a strategy, or with the remote service.
RerankInstance(kind) ==
    IF kind = "none" THEN RerankerFields(TRUE, FALSE, FALSE)
    ELSE RerankerFields(FALSE, TRUE, FALSE)

\* The answer of the remote service for n candidates.
RerankAnswer(kind, n) ==
    IF kind = "keep" THEN [raises |-> FALSE, order |-> [i \in 1..n |-> i], scores |-> <<>>]
    ELSE IF kind = "turn"
    THEN [raises |-> FALSE, order |-> [i \in 1..n |-> n + 1 - i], scores |-> <<>>]
    ELSE [raises |-> TRUE, order |-> <<>>, scores |-> <<>>]

\* One call of advanced_rag_search(query, top_k=top_k) that is not answered
\* from the cache.  f says which services fail.
AdvancedSearch(top_k, cfg, f, kw, sem, kind) ==
    /\ pl.pc = "idle"
    /\ LET got == Retrieve(f.get_ok, kw, f.bm25_raises, sem, f.sem_raises,
                           cfg.hybrid_top_k)
           reranked == RerankStage(got.docs, top_k, cfg.rerank_top_k, RerankMode(kind),
                                   RerankInstance(kind),
                                   RerankAnswer(kind, Len(got.docs)))
           final_docs == CompressStage(reranked, TRUE, "compress" \in f.soft)
           keyword_failed == ~f.get_ok \/ (kw # <<>> /\ f.bm25_raises)
           vector_failed == sem = <<>> \/ f.sem_raises
           rerank_failed == kind \in {"broken", "raise"} /\ got.docs # <<>>
       IN  pl' = [pc |-> "done",
                  top_k |-> top_k,
                  hybrid_top_k |-> cfg.hybrid_top_k,
                  rerank_top_k |-> cfg.rerank_top_k,
                  keyword_failed |-> keyword_failed,
                  vector_failed |-> vector_failed,
                  fused |-> got.docs,
                  rerank_on |-> kind # "off",
                  rerank_raised |-> rerank_failed,
                  failed |-> FailedStages(f.soft, keyword_failed, vector_failed,
                                          rerank_failed),
                  result |-> IF got.raised THEN <<>> ELSE final_docs,
                  raised |-> got.raised]
    /\ UNCHANGED not_pipeline

\* The caller takes the result.
PipelineReturn ==
    /\ pl.pc = "done"
    /\ pl' = NoPl
    /\ UNCHANGED not_pipeline

\* The failures of the services in one call.
Failures ==
    [get_ok : BOOLEAN, bm25_raises : BOOLEAN, sem_raises : BOOLEAN,
     soft : {{}, {"cache"}, {"rewrite"}, {"compress"}}]

\* The lists a retrieval returns: no content twice.
Hits ==
    {h \in SeqUpTo(PipeContents, MaxHits) : \A i, j \in 1..Len(h) : i # j => h[i] # h[j]}

PipelineInit ==
    /\ ToolsIdle
    /\ FusionIdle /\ CacheIdle /\ RagIdle /\ RepairIdle
    /\ WriteIdle /\ RerankerIdle /\ Bm25Idle /\ HybridIdle /\ StoreIdle
    /\ PipelineIdle

PipelineNext ==
    \/ /\ pl.pc = "idle"
       /\ \E top_k \in TopKs, cfg \in PipelineConfigs, f \in Failures,
             kw \in Hits, sem \in Hits, kind \in RerankKinds :
             AdvancedSearch(top_k, cfg, f, kw, sem, kind)
    \/ PipelineReturn

SpecPipeline == PipelineInit /\ [][PipelineNext]_vars

(***************************************************************************)
(* Claims on advanced_rag_search                                           *)
(***************************************************************************)
\* C12: when the reranking service raises, advanced_rag_search(query,
\* top_k=n) returns exactly min(n, number of fused candidates) documents:
\* the first ones of the fused order.
C12_RerankFailureKeepsTopK ==
    pl.pc = "done" /\ pl.rerank_raised /\ ~pl.raised
        => pl.result = Prefix(pl.fused, pl.top_k)

\* What the code does instead: the cut is at RERANK_TOP_K.
C12_RerankFailureKeepsRerankTopK ==
    pl.pc = "done" /\ pl.rerank_raised /\ ~pl.raised
        => pl.result = Prefix(pl.fused, pl.rerank_top_k)

\* C13: advanced_rag_search never raises, and when both the keyword and the
\* vector retrieval fail it returns an empty list.
C13_NeverRaises ==
    pl.pc = "done"
        => /\ ~pl.raised
           /\ pl.keyword_failed /\ pl.vector_failed => pl.result = <<>>

\* The part that holds: both retrievals failing gives an empty list or an
\* exception, and a failure of the cache check, the rewriting or the
\* compression alone never raises.
C13_BothFailGiveNothing ==
    pl.pc = "done"
        => /\ pl.keyword_failed /\ pl.vector_failed => pl.result = <<>>
           /\ pl.raised => "vector" \in pl.failed

\* C14: every document advanced_rag_search returns carries a relevance_score
\* between 0 and 1 in its metadata (0..100 in hundredths), the documents
\* found by the keyword search included.
C14_ScoreInUnitInterval ==
    pl.pc = "done"
        => \A i \in 1..Len(pl.result) :
              /\ pl.result[i].metadata.has_score
              /\ pl.result[i].metadata.relevance_score \in 0..100


(***************************************************************************)
(* Claims on the Reranker and on the sizes of the candidate set            *)
(***************************************************************************)
\* Reranker.rerank called on its own, and called by advanced_rag_search.
RerankBoundsNext ==
    \/ PipelineIdle /\ RerankerNext
    \/ RerankerIdle /\ PipelineNext

SpecRerankBounds == RerankerInit /\ [][RerankBoundsNext]_vars

\* The documents of a list of results are all among the given documents.
DrawnFrom(results, documents) ==
    \A i \in 1..Len(results) :
        \E j \in 1..Len(documents) : results[i].document = documents[j]

\* C15: Reranker.rerank returns, on every path, a list no longer than its
\* input and no longer than top_k, whose documents are all drawn from the
\* input; in advanced_rag_search the candidate set has at most HYBRID_TOP_K
\* documents after the fusion and at most RERANK_TOP_K after the reranking.
C15_SizesBounded ==
    /\ rr.pc = "done"
          => /\ Len(rr.result) <= Len(rr.documents)
             /\ Len(rr.result) <= rr.top_k
             /\ DrawnFrom(rr.result, rr.documents)
    /\ pl.pc = "done" /\ ~pl.raised
          => /\ Len(pl.fused) <= pl.hybrid_top_k
             /\ Len(pl.result) <= Len(pl.fused)
             /\ pl.rerank_on /\ pl.fused # <<>> => Len(pl.result) <= pl.rerank_top_k

\* The cross-encoder ranks more documents than top_k and the cut binds.
C15_Witness ==
    /\ rr.pc = "done"
    /\ rr.strategy = "local" /\ ~rr.strategy_raised
    /\ Len(rr.documents) > rr.top_k
    /\ Len(rr.result) = rr.top_k

\* advanced_rag_search: the reranking cuts the fused candidates.
C15_WitnessPipeline ==
    /\ pl.pc = "done"
    /\ pl.rerank_on /\ ~pl.rerank_raised
    /\ Len(pl.fused) > pl.rerank_top_k
    /\ Len(pl.result) = pl.rerank_top_k

\* C16: at construction, when the preferred strategy is unavailable and the
\* other one is available, the other one is selected, in both directions;
\* rerank is a no-op only when neither is available.
C16_FallbackBothWays ==
    rr.pc \in {"built", "done"}
        => /\ ~rr.preferred_local /\ ~rr.cohere_usable /\ rr.local_usable
                 => StrategyOf(rr) = "local"
           /\ rr.preferred_local /\ ~rr.local_usable /\ rr.cohere_usable
                 => StrategyOf(rr) = "cohere"
           /\ StrategyOf(rr) = "none" => ~rr.cohere_usable /\ ~rr.local_usable

\* The direction that holds: from the remote service to the cross-encoder.
C16_RemoteToLocal ==
    rr.pc \in {"built", "done"}
        => /\ ~rr.preferred_local /\ ~rr.cohere_usable /\ rr.local_usable
                 => StrategyOf(rr) = "local"
           /\ ~rr.preferred_local /\ StrategyOf(rr) = "none"
                 => ~rr.cohere_usable /\ ~rr.local_usable

\* C17: when no strategy is available, or the selected strategy raises
\* during the call, rerank does not raise and returns the first top_k input
\* documents in input order, ranked 1..n, each with the relevance score the
\* document carries.
C17_FallbackKeepsOrder ==
    rr.pc = "done" /\ (StrategyOf(rr) = "none" \/ rr.strategy_raised)
        => /\ ~rr.raised
           /\ Len(rr.result) = Min(rr.top_k, Len(rr.documents))
           /\ \A i \in 1..Len(rr.result) :
                 /\ rr.result[i].document = rr.documents[i]
                 /\ rr.result[i].rank = i
                 /\ rr.documents[i].metadata.has_score
                       => rr.result[i].score = rr.documents[i].metadata.relevance_score

\* The remote service raises on three documents, top_k is 2: the first two
\* come back with the scores they carry.
C17_Witness ==
    /\ rr.pc = "done"
    /\ rr.strategy = "cohere" /\ rr.strategy_raised
    /\ Len(rr.documents) = 3 /\ rr.top_k = 2
    /\ Len(rr.result) = 2
    /\ rr.documents[1].metadata.has_score

\* A document that carries no score is given the placeholder 0.5.
C17_PlaceholderWhenNoScore ==
    rr.pc = "done" /\ (StrategyOf(rr) = "none" \/ rr.strategy_raised)
        => \A i \in 1..Len(rr.result) :
              ~rr.documents[i].metadata.has_score
                  => rr.result[i].score = PlaceholderScore


(***************************************************************************)
(* BM25Retriever (src/data/bm25_retriever.py)                              *)
(***************************************************************************)
\* Most documents in the index.
MaxIndexed == 3

\* The page contents of the indexed documents.
IndexedContents == {"a", "b"}

\* The scores bm25.get_scores gives: BM25Okapi scores are negative, zero or
\* positive.
Bm25Scores == {-1, 0, 1, 2}

\* A test that lets every score through.
AnyScore(score) == TRUE

\* if scores[idx] > 0
IsPositive(score) == score > 0

\* np.argsort(scores): the positions in ascending order of score; the order
\* of equal scores is not fixed.
Argsorts(scores) ==
    {p \in Orderings(Len(scores)) :
        \A i, j \in 1..Len(scores) : i < j => scores[p[i]] <= scores[p[j]]}

\* The loop over top_indices: a result for every index whose score is
\* positive, ranked len(results) + 1.
RECURSIVE BuildResults(_, _, _, _, _)
BuildResults(documents, scores, top_indices, i, results) ==
    IF i > Len(top_indices) THEN results
    ELSE LET idx == top_indices[i]
         IN  BuildResults(documents, scores, top_indices, i + 1,
                 IF IsPositive(scores[idx])
                 THEN Append(results, [document |-> documents[idx],
                                       score |-> scores[idx],
                                       rank |-> Len(results) + 1])
                 ELSE results)

\* BM25Retriever.search(query, top_k).  scores: what the index gives for the
\* query; order: what argsort gives for these scores.
Bm25Search(indexed, documents, scores, order, top_k) ==
    IF ~indexed \/ documents = <<>> THEN <<>>
    ELSE BuildResults(documents, scores, Prefix(Reverse(order), top_k), 1, <<>>)

\* BM25Retriever()
Bm25Construct ==
    /\ bm.pc = "idle"
    /\ bm' = [NoBm EXCEPT !.pc = "ready"]
    /\ UNCHANGED not_bm25

\* index_documents(documents): an empty list leaves the index as it is.
IndexDocuments(documents) ==
    /\ bm.pc = "ready"
    /\ bm' = IF documents = <<>> THEN bm
             ELSE [bm EXCEPT !.indexed = TRUE, !.documents = documents]
    /\ UNCHANGED not_bm25

\* search(query, top_k)
SearchCall(scores, order, top_k) ==
    /\ bm.pc = "ready"
    /\ bm' = [bm EXCEPT !.pc = "done",
                        !.scores = scores,
                        !.order = order,
                        !.top_k = top_k,
                        !.result = Bm25Search(bm.indexed, bm.documents, scores, order,
                                              top_k)]
    /\ UNCHANGED not_bm25

\* The caller takes the results; the index stays.
SearchReturn ==
    /\ bm.pc = "done"
    /\ bm' = [bm EXCEPT !.pc = "ready", !.scores = <<>>, !.order = <<>>,
                        !.top_k = 0, !.result = <<>>]
    /\ UNCHANGED not_bm25

\* The retriever is dropped: advanced_rag_search builds one per call.
Bm25Drop ==
    /\ bm.pc = "ready"
    /\ bm' = NoBm
    /\ UNCHANGED not_bm25

Bm25Init ==
    /\ ToolsIdle
    /\ FusionIdle /\ CacheIdle /\ RagIdle /\ RepairIdle
    /\ WriteIdle /\ RerankerIdle /\ HybridIdle /\ StoreIdle /\ PipelineIdle
    /\ Bm25Idle

Bm25Next ==
    \/ Bm25Construct
    \/ /\ bm.pc = "ready" /\ ~bm.indexed
       /\ \E documents \in SeqUpTo(IndexedContents, MaxIndexed) : IndexDocuments(documents)
    \/ /\ bm.pc = "ready"
       /\ \E scores \in [1..Len(bm.documents) -> Bm25Scores], top_k \in 0..MaxIndexed :
             \E order \in Argsorts(scores) : SearchCall(scores, order, top_k)
    \/ SearchReturn
    \/ Bm25Drop

SpecBm25 == Bm25Init /\ [][Bm25Next]_vars

\* The number of indexed documents with a positive score.
PositiveCount(scores) == Cardinality({i \in 1..Len(scores) : scores[i] > 0})

\* C18: BM25Retriever.search(query, top_k) returns at most top_k results,
\* every result has a score above 0, the results are in descending order of
\* score with ranks 1..n, and no document with a score of 0 or less is
\* returned even when fewer than top_k documents qualify.
C18_SearchPositiveDescending ==
    bm.pc = "done"
        => /\ Len(bm.result) <= bm.top_k
           /\ Len(bm.result) <= PositiveCount(bm.scores)
           /\ \A i \in 1..Len(bm.result) :
                 /\ bm.result[i].score > 0
                 /\ bm.result[i].rank = i
                 /\ i < Len(bm.result) => bm.result[i].score >= bm.result[i + 1].score
                 /\ \E j \in 1..Len(bm.documents) :
                       /\ bm.result[i].document = bm.documents[j]
                       /\ bm.result[i].score = bm.scores[j]

\* Three documents, one of them with a score of 0 or less, top_k 3: two
\* results.
C18_Witness ==
    /\ bm.pc = "done"
    /\ Len(bm.documents) = 3 /\ bm.top_k = 3
    /\ PositiveCount(bm.scores) = 2
    /\ Len(bm.result) = 2
    /\ bm.result[1].score > bm.result[2].score

\* The results are all the qualifying documents within the top_k best.
C18_AllQualifyingReturned ==
    bm.pc = "done" /\ bm.indexed
        => Len(bm.result) = Min(bm.top_k, PositiveCount(bm.scores))


(***************************************************************************)
(* hybrid_search (src/data/document_store.py) with the file cache          *)
(* (src/utils/cache.py)                                                    *)
(***************************************************************************)
\* The documents search_documents returns: relevance_score is
\* 1 - distance / 2, in hundredths, below 0 for a distance above 2.
SemanticChoices ==
    {Doc("a", TRUE, 90), Doc("a", TRUE, 40), Doc("b", TRUE, 70), Doc("b", TRUE, -50)}

\* The documents of the keyword matching: relevance_score is
\* match_count / len(query_terms) with match_count > 0.
KeywordChoices == {Doc("b", TRUE, 100), Doc("c", TRUE, 50), Doc("c", TRUE, 100)}

\* The values of min_relevance, in hundredths: 0.0 and the default 0.7.
MinRelevances == {0, 70}

\* The values of top_k.
HybridTopKs == {1, 2}

\* A test that lets every document through.
MeetsAnything(doc, min_relevance) == TRUE

\* doc.metadata.get("relevance_score", 0) >= min_relevance
MeetsMinRelevance(doc, min_relevance) == MetaScore(doc, 0) >= min_relevance

\* all_docs[hash(doc.page_content)] = doc for every semantic result: a
\* content seen again keeps its place and takes the later document.
RECURSIVE AddSemantic(_, _, _)
AddSemantic(all_docs, semantic_results, i) ==
    IF i > Len(semantic_results) THEN all_docs
    ELSE LET doc == semantic_results[i]
             at == {j \in 1..Len(all_docs) : all_docs[j].page_content = doc.page_content}
         IN  AddSemantic(IF at = {} THEN Append(all_docs, doc)
                         ELSE [j \in 1..Len(all_docs) |->
                                  IF j \in at THEN doc ELSE all_docs[j]],
                         semantic_results, i + 1)

\* Keyword results are added when their content is not yet there.
RECURSIVE AddKeyword(_, _, _)
AddKeyword(all_docs, keyword_docs, i) ==
    IF i > Len(keyword_docs) THEN all_docs
    ELSE LET doc == keyword_docs[i]
             seen == \E j \in 1..Len(all_docs) :
                        all_docs[j].page_content = doc.page_content
         IN  AddKeyword(IF seen THEN all_docs ELSE Append(all_docs, doc),
                        keyword_docs, i + 1)

\* sorted(all_docs.values(), key=relevance_score, reverse=True): stable.
RECURSIVE SortByRelevance(_, _, _)
SortByRelevance(sorted, docs, i) ==
    IF i > Len(docs) THEN sorted
    ELSE LET p == Cardinality({j \in 1..Len(sorted) :
                                  MetaScore(sorted[j], 0) >= MetaScore(docs[i], 0)})
         IN  SortByRelevance(SubSeq(sorted, 1, p) \o <<docs[i]>>
                                 \o SubSeq(sorted, p + 1, Len(sorted)),
                             docs, i + 1)

\* [doc for doc in sorted_docs if relevance_score >= min_relevance]
RECURSIVE FilterByRelevance(_, _)
FilterByRelevance(docs, min_relevance) ==
    IF docs = <<>> THEN <<>>
    ELSE (IF MeetsMinRelevance(Head(docs), min_relevance) THEN <<Head(docs)>> ELSE <<>>)
             \o FilterByRelevance(Tail(docs), min_relevance)

\* The documents of a search that is not answered from the cache, sorted.
SortedDocs(semantic_results, keyword_docs) ==
    SortByRelevance(<<>>, AddKeyword(AddSemantic(<<>>, semantic_results, 1),
                                     keyword_docs, 1), 1)

\* The key of a search in the file cache, for one query, collection and
\* filter.
HybridCacheKey(top_k, min_relevance) == <<"hybrid_search", top_k, min_relevance>>

\* cache.get(key): a key without a file misses; the file cache.set leaves
\* after json.dump fails on a Document is not readable, and get returns
\* None for it too.
FileCacheGet(cache_files, key) == [hit |-> FALSE, value |-> <<>>]

\* cache.set(key, results): json.dump raises TypeError on the first
\* Document and leaves the file it has begun.
FileCacheSet(cache_files, key, results) == cache_files \cup {key}

\* hybrid_search(query, top_k=top_k, min_relevance=min_relevance,
\* use_cache=use_cache).  semantic: what search_documents(top_k=top_k * 2)
\* returns; keyword: the documents the keyword matching has collected, all
\* of them or those before it failed.
HybridSearch(top_k, min_relevance, use_cache, semantic, keyword) ==
    /\ hy.pc = "idle"
    /\ LET key == HybridCacheKey(top_k, min_relevance)
           cached == FileCacheGet(hy.cache_files, key)
           sorted_docs == SortedDocs(Prefix(semantic, top_k * 2), keyword)
           results == Prefix(FilterByRelevance(sorted_docs, min_relevance), top_k)
       IN  IF use_cache /\ cached.hit
           THEN hy' = [hy EXCEPT !.pc = "done", !.top_k = top_k,
                                 !.min_relevance = min_relevance,
                                 !.use_cache = use_cache,
                                 !.result = cached.value, !.from_cache = TRUE]
           ELSE hy' = [hy EXCEPT !.pc = "done", !.top_k = top_k,
                                 !.min_relevance = min_relevance,
                                 !.use_cache = use_cache,
                                 !.sorted_docs = sorted_docs,
                                 !.result = results,
                                 !.cache_files =
                                     IF use_cache /\ results # <<>>
                                     THEN FileCacheSet(hy.cache_files, key, results)
                                     ELSE hy.cache_files]
    /\ UNCHANGED not_hybrid

\* The caller takes the result; the cache files stay.
HybridReturn ==
    /\ hy.pc = "done"
    /\ hy' = [NoHy EXCEPT !.cache_files = hy.cache_files]
    /\ UNCHANGED not_hybrid

HybridInit ==
    /\ ToolsIdle
    /\ FusionIdle /\ CacheIdle /\ RagIdle /\ RepairIdle
    /\ WriteIdle /\ RerankerIdle /\ Bm25Idle /\ StoreIdle /\ PipelineIdle
    /\ HybridIdle

HybridNext ==
    \/ /\ hy.pc = "idle"
       /\ \E top_k \in HybridTopKs, min_relevance \in MinRelevances, use_cache \in BOOLEAN,
             semantic \in SeqUpTo(SemanticChoices, MaxHits),
             keyword \in SeqUpTo(KeywordChoices, MaxHits) :
             HybridSearch(top_k, min_relevance, use_cache, semantic, keyword)
    \/ HybridReturn

SpecHybrid == HybridInit /\ [][HybridNext]_vars

\* C19: hybrid_search returns only documents whose relevance_score is at
\* least min_relevance, so that filtering its result again with the same
\* threshold gives the same list, and it returns at most top_k documents.
C19_OnlyAboveMinRelevance ==
    hy.pc = "done"
        => /\ \A i \in 1..Len(hy.result) :
                 /\ hy.result[i].metadata.has_score
                 /\ hy.result[i].metadata.relevance_score >= hy.min_relevance
           /\ FilterByRelevance(hy.result, hy.min_relevance) = hy.result
           /\ Len(hy.result) <= hy.top_k

\* A search that found a document below the threshold and returns others.
C19_Witness ==
    /\ hy.pc = "done"
    /\ hy.min_relevance = 70
    /\ \E i \in 1..Len(hy.sorted_docs) :
          hy.sorted_docs[i].metadata.relevance_score < hy.min_relevance
    /\ hy.result # <<>>
    /\ Len(hy.result) < Len(hy.sorted_docs)

\* No search is answered from the file cache.
C19_NeverFromCache == ~hy.from_cache


(***************************************************************************)
(* DocumentStore.__new__, __init__ and shutdown                            *)
(* (src/data/document_store.py)                                            *)
(***************************************************************************)
\* A handle is the number of the construction that made it; 0 is None.
\* Thread t moves to the given position.
Goto(t, position) == [st.pc EXCEPT ![t] = position]

\* Thread t calls DocumentStore().
StoreCall(t) ==
    /\ st.pc[t] = "out"
    /\ st' = [st EXCEPT !.pc = Goto(t, "new_check")]
    /\ UNCHANGED not_store

\* __new__: if _instance is None, read without the lock.
NewCheck(t) ==
    /\ st.pc[t] = "new_check"
    /\ st' = [st EXCEPT !.pc = Goto(t, IF st.instance THEN "init_check" ELSE "lock")]
    /\ UNCHANGED not_store

\* with _lock:
NewLock(t) ==
    /\ st.pc[t] = "lock"
    /\ st.lock = 0
    /\ st' = [st EXCEPT !.lock = t, !.pc = Goto(t, "locked_check")]
    /\ UNCHANGED not_store

\* if _instance is None: _instance = super().__new__(cls), under the lock.
NewCreate(t) ==
    /\ st.pc[t] = "locked_check"
    /\ st' = IF st.instance
             THEN [st EXCEPT !.lock = 0, !.pc = Goto(t, "init_check")]
             ELSE [st EXCEPT !.instance = TRUE, !.initialized = "unset",
                             !.pc = Goto(t, "created")]
    /\ UNCHANGED not_store

\* _instance._initialized = False, and the lock is released.
NewMarkUninitialized(t) ==
    /\ st.pc[t] = "created"
    /\ st' = [st EXCEPT !.initialized = "no", !.lock = 0, !.pc = Goto(t, "init_check")]
    /\ UNCHANGED not_store

\* __init__: if self._initialized: return.  Reading the attribute before
\* __new__ has set it raises AttributeError.
InitCheck(t) ==
    /\ st.pc[t] = "init_check"
    /\ st' = [st EXCEPT !.pc = Goto(t, CASE st.initialized = "unset" -> "raised"
                                         [] st.initialized = "yes" -> "returned"
                                         [] st.initialized = "no" -> "client_check")]
    /\ UNCHANGED not_store

\* if DocumentStore._shared_client is None:
ClientCheck(t) ==
    /\ st.pc[t] = "client_check"
    /\ st' = [st EXCEPT !.pc = Goto(t, IF st.shared_client = 0 THEN "client_make"
                                       ELSE "client_set")]
    /\ UNCHANGED not_store

\* DocumentStore._shared_client = chromadb.Client(...)
ClientMake(t) ==
    /\ st.pc[t] = "client_make"
    /\ st' = [st EXCEPT !.clients_made = st.clients_made + 1,
                        !.shared_client = st.clients_made + 1,
                        !.pc = Goto(t, "client_set")]
    /\ UNCHANGED not_store

\* self.client = DocumentStore._shared_client
ClientSet(t) ==
    /\ st.pc[t] = "client_set"
    /\ st' = [st EXCEPT !.client = st.shared_client, !.pc = Goto(t, "embedding_check")]
    /\ UNCHANGED not_store

\* if DocumentStore._shared_embedding_function is None:
EmbeddingCheck(t) ==
    /\ st.pc[t] = "embedding_check"
    /\ st' = [st EXCEPT !.pc = Goto(t, IF st.shared_embedding_function = 0
                                       THEN "embedding_make" ELSE "embedding_set")]
    /\ UNCHANGED not_store

\* DocumentStore._shared_embedding_function = ...EmbeddingFunction(...)
EmbeddingMake(t) ==
    /\ st.pc[t] = "embedding_make"
    /\ st' = [st EXCEPT !.embeddings_made = st.embeddings_made + 1,
                        !.shared_embedding_function = st.embeddings_made + 1,
                        !.pc = Goto(t, "embedding_set")]
    /\ UNCHANGED not_store

\* self.embedding_function = DocumentStore._shared_embedding_function
EmbeddingSet(t) ==
    /\ st.pc[t] = "embedding_set"
    /\ st' = [st EXCEPT !.embedding_function = st.shared_embedding_function,
                        !.pc = Goto(t, "collections")]
    /\ UNCHANGED not_store

\* The two collections are obtained and self._initialized = True.
InitFinish(t) ==
    /\ st.pc[t] = "collections"
    /\ st' = [st EXCEPT !.initialized = "yes", !.pc = Goto(t, "returned")]
    /\ UNCHANGED not_store

\* DocumentStore.shutdown()
Shutdown ==
    /\ st.shared_client # 0
    /\ st' = [st EXCEPT !.shared_client = 0, !.shared_embedding_function = 0]
    /\ UNCHANGED not_store

StoreInit ==
    /\ ToolsIdle
    /\ FusionIdle /\ CacheIdle /\ RagIdle /\ RepairIdle
    /\ WriteIdle /\ RerankerIdle /\ Bm25Idle /\ HybridIdle /\ PipelineIdle
    /\ StoreIdle

\* The steps of the constructions, without shutdown.
ConstructNext ==
    \E t \in Threads :
        \/ StoreCall(t)
        \/ NewCheck(t)
        \/ NewLock(t)
        \/ NewCreate(t)
        \/ NewMarkUninitialized(t)
        \/ InitCheck(t)
        \/ ClientCheck(t)
        \/ ClientMake(t)
        \/ ClientSet(t)
        \/ EmbeddingCheck(t)
        \/ EmbeddingMake(t)
        \/ EmbeddingSet(t)
        \/ InitFinish(t)

StoreNext ==
    \/ ConstructNext
    \/ Shutdown

\* Concurrent constructions alone.
SpecConstruct == StoreInit /\ [][ConstructNext]_vars

\* Concurrent constructions and shutdown.
SpecStore == StoreInit /\ [][StoreNext]_vars

\* C20: for any interleaving of concurrent DocumentStore() constructions,
\* the storage client and the embedding function are each constructed
\* exactly once, every caller obtains the same instance holding these two
\* handles, and no construction raises.
C20_ConstructedOnce ==
    /\ st.clients_made <= 1
    /\ st.embeddings_made <= 1
    /\ \A t \in Threads :
          /\ st.pc[t] # "raised"
          /\ st.pc[t] = "returned"
                => st.instance /\ st.client = 1 /\ st.embedding_function = 1

\* A handle that is set is never replaced or cleared.
C20_HandlesNeverReplaced ==
    [][/\ st.shared_client # 0 => st.shared_client' = st.shared_client
       /\ st.client # 0 => st.client' = st.client
       /\ st.shared_embedding_function # 0
             => st.shared_embedding_function' = st.shared_embedding_function
       /\ st.embedding_function # 0
             => st.embedding_function' = st.embedding_function]_vars

\* The part that holds: there is one instance, created under the lock, and
\* at most one thread is inside the locked section.
C20_OneInstance ==
    \A t, u \in Threads :
        st.pc[t] \in {"locked_check", "created"} /\ st.pc[u] \in {"locked_check", "created"}
            => t = u /\ st.lock = t


(***************************************************************************)
(* Parallel fetch of the milestone resources (src/learning_path.py)        *)
(***************************************************************************)
\* Most milestones of a learning path.
MaxMilestones == 4

\* ThreadPoolExecutor(max_workers=3)
MaxWorkers == 3

\* What search_resources does in one task: it returns resources, returns
\* nothing, or raises.
SearchOutcomes == {"found", "empty", "raise"}

\* What fetch_milestone_resources returns for a milestone: the milestone and
\* the resources of the search, or the two default resources built from
\* the title of the milestone.
FetchMilestoneResources(milestone, outcome) ==
    [milestone |-> milestone,
     resources |-> IF outcome = "found" THEN <<"perplexity", milestone>>
                   ELSE <<"default", milestone>>]

\* A collector that gives the k-th completed result to the k-th milestone.
TargetByPosition(result, position) == position

\* milestone, resources = future.result(): the milestone the task returned.
TargetOf(result, position) == result.milestone

\* The tasks that are running.
Running == {i \in 1..Len(fe.status) : fe.status[i] = "running"}

\* The path has n milestones with the resources the model generated; one
\* task per milestone is submitted.
FetchSubmit(n) ==
    /\ fe.pc = "idle"
    /\ fe' = [pc |-> "pool",
              milestones |-> [i \in 1..n |-> i],
              status |-> [i \in 1..n |-> "queued"],
              returned |-> [i \in 1..n |-> NoneValue],
              resources |-> [i \in 1..n |-> <<"generated", i>>],
              collected |-> 0]
    /\ UNCHANGED not_fetch

\* A worker of the pool takes the oldest queued task; the pool has
\* MaxWorkers workers.
TaskBegin(i) ==
    /\ fe.pc = "pool"
    /\ fe.status[i] = "queued"
    /\ \A j \in 1..(i - 1) : fe.status[j] # "queued"
    /\ Cardinality(Running) < MaxWorkers
    /\ fe' = [fe EXCEPT !.status[i] = "running"]
    /\ UNCHANGED not_fetch

\* The task of milestone i returns.
TaskFinish(i, outcome) ==
    /\ fe.pc = "pool"
    /\ fe.status[i] = "running"
    /\ fe' = [fe EXCEPT !.status[i] = "finished",
                        !.returned[i] = FetchMilestoneResources(fe.milestones[i], outcome)]
    /\ UNCHANGED not_fetch

\* for future in as_completed(...): milestone.resources = resources, for a
\* finished task not yet collected.
Collect(i) ==
    /\ fe.pc = "pool"
    /\ fe.status[i] = "finished"
    /\ LET target == TargetOf(fe.returned[i], fe.collected + 1)
       IN  fe' = [fe EXCEPT !.status[i] = "collected",
                            !.resources[target] = fe.returned[i].resources,
                            !.collected = fe.collected + 1]
    /\ UNCHANGED not_fetch

\* The loop ends when every future was yielded, and the pool shuts down.
FetchEnd ==
    /\ fe.pc = "pool"
    /\ \A i \in 1..Len(fe.status) : fe.status[i] = "collected"
    /\ fe' = [fe EXCEPT !.pc = "done"]
    /\ UNCHANGED not_fetch

\* The generator goes on with the path.
FetchReturn ==
    /\ fe.pc = "done"
    /\ fe' = NoFe
    /\ UNCHANGED not_fetch

FetchInit ==
    /\ RetrievalIdle
    /\ IndexIdle /\ RewriterIdle /\ CompressorIdle
    /\ FileCacheIdle /\ ValidatorIdle /\ BatchIdle
    /\ FetchIdle

FetchNext ==
    \/ \E n \in 1..MaxMilestones : FetchSubmit(n)
    \/ \E i \in 1..Len(fe.status) : TaskBegin(i)
    \/ \E i \in 1..Len(fe.status), outcome \in SearchOutcomes : TaskFinish(i, outcome)
    \/ \E i \in 1..Len(fe.status) : Collect(i)
    \/ FetchEnd
    \/ FetchReturn

SpecFetch == FetchInit /\ [][FetchNext]_vars

\* C21: at most 3 fetch tasks run at the same time; the fetch ends only
\* when every task has completed; for every completion order each milestone
\* then holds the resources its own task produced, and the milestones are
\* in their order.
C21_OwnResources ==
    /\ Cardinality(Running) <= 3
    /\ fe.pc = "done"
          => /\ fe.collected = Len(fe.milestones)
             /\ \A i \in 1..Len(fe.milestones) :
                   /\ fe.milestones[i] = i
                   /\ fe.returned[i] # NoneValue
                   /\ fe.resources[i] = fe.returned[i].resources
                   /\ fe.resources[i][2] = i

\* Four milestones: three tasks run together, and the task of the second
\* milestone was collected before the task of the first has finished.
C21_Witness ==
    /\ fe.pc = "pool"
    /\ Len(fe.milestones) = 4
    /\ Cardinality(Running) = 3
    /\ fe.status[1] = "running" /\ fe.status[2] = "collected"
    /\ fe.resources[2] = <<"perplexity", 2>>

\* The fetch has ended with every milestone holding fetched resources.
C21_WitnessDone ==
    /\ fe.pc = "done"
    /\ Len(fe.milestones) = 4
    /\ \A i \in 1..4 : fe.resources[i][1] # "generated"


(***************************************************************************)
(* The keyword index of a retrieval in advanced_rag_search                 *)
(* (src/data/document_store.py, src/data/bm25_retriever.py)                *)
(***************************************************************************)
\* A retriever kept from the call before, with the index it had.
KeptRetriever(earlier) == earlier

\* bm25 = BM25Retriever(...): a new retriever, its documents are [].
NewRetriever(earlier) == <<>>

\* index_documents(documents) on a retriever that holds index: an empty
\* list leaves the retriever as it is.
IndexAfter(index, documents) ==
    IF documents = <<>> THEN index ELSE documents

\* all_documents: one Document per entry of collection.get(), or [] when
\* the collection cannot be read.
AllDocuments(collection, get_ok) ==
    IF get_ok THEN [i \in 1..Len(collection) |-> StoredDoc(collection[i])] ELSE <<>>

\* The documents of the retriever the keyword search of a call uses.
KeywordIndex(earlier, all_documents) ==
    IF all_documents # <<>>
    THEN IndexAfter(NewRetriever(earlier), all_documents)
    ELSE NewRetriever(earlier)

\* A document is added to the collection between two searches.
CollectionAdd(content) ==
    /\ ix.pc = "idle"
    /\ Len(ix.collection) < MaxIndexed
    /\ ix' = [ix EXCEPT !.collection = Append(ix.collection, content)]
    /\ UNCHANGED not_index

\* The oldest document is deleted between two searches.
CollectionDelete ==
    /\ ix.pc = "idle"
    /\ ix.collection # <<>>
    /\ ix' = [ix EXCEPT !.collection = Tail(ix.collection)]
    /\ UNCHANGED not_index

\* Step 3 of advanced_rag_search up to the semantic query.  get_ok: the
\* collection can be read for the index.
RetrievalCall(get_ok) ==
    /\ ix.pc = "idle"
    /\ LET all_documents == AllDocuments(ix.collection, get_ok)
       IN  ix' = [ix EXCEPT !.pc = "done",
                            !.get_ok = get_ok,
                            !.indexed = all_documents # <<>>,
                            !.index = KeywordIndex(ix.earlier, all_documents),
                            !.searched = Len(ix.collection)]
    /\ UNCHANGED not_index

\* The call returns: what it indexed is the index of an earlier call now.
RetrievalReturn ==
    /\ ix.pc = "done"
    /\ ix' = [ix EXCEPT !.pc = "idle", !.earlier = ix.index, !.get_ok = FALSE,
                        !.indexed = FALSE, !.index = <<>>, !.searched = 0]
    /\ UNCHANGED not_index

IndexInit ==
    /\ RetrievalIdle
    /\ FetchIdle /\ RewriterIdle /\ CompressorIdle
    /\ FileCacheIdle /\ ValidatorIdle /\ BatchIdle
    /\ IndexIdle

IndexNext ==
    \/ \E content \in PipeContents : CollectionAdd(content)
    \/ CollectionDelete
    \/ \E get_ok \in BOOLEAN : RetrievalCall(get_ok)
    \/ RetrievalReturn

SpecIndex == IndexInit /\ [][IndexNext]_vars

DirectThreshold == 50

\* def rewrite_if_needed(self, query, threshold=20)
DefaultRewriteThreshold == 20

\* The lengths of the queries, around the thresholds.
QueryLengths == {0, 5, 19, 20, 21, 49, 50, 51, 60}

\* The thresholds a caller passes to rewrite_if_needed.
RewriteThresholds == {DefaultRewriteThreshold, 10, 50, 60}

\* What the generation call does: it raises an error or a timeout, returns
\* a response without choices or with None as content, or returns a text,
\* which may be empty.
Responses == {"error", "timeout", "no_choices", "none_content", "empty_text", "text"}

\* The calls that end in the except branch.
Fails(response) == response \in {"error", "timeout", "no_choices", "none_content"}

\* len(query) > 50
SkipsDirect(length) == length > DirectThreshold

\* An except branch that lets the error through.
Reraise(response) == [result |-> "none", raised |-> TRUE]

\* except Exception as e: return query
ExceptBranch(response) == [result |-> "original", raised |-> FALSE]

\* QueryRewriter.rewrite(query) for a query of the given length.
Rewrite(has_client, length, response) ==
    IF ~has_client THEN [calls |-> 0, result |-> "original", raised |-> FALSE]
    ELSE IF SkipsDirect(length) THEN [calls |-> 0, result |-> "original", raised |-> FALSE]
    ELSE IF Fails(response)
    THEN [calls |-> 1] @@ ExceptBranch(response)
    ELSE [calls |-> 1,
          result |-> IF response = "empty_text" THEN "empty" ELSE "rewritten",
          raised |-> FALSE]

\* QueryRewriter.rewrite_if_needed(query, threshold)
RewriteIfNeeded(has_client, length, threshold, response) ==
    IF length < threshold THEN Rewrite(has_client, length, response)
    ELSE [calls |-> 0, result |-> "original", raised |-> FALSE]

RewriteCall(method, has_client, length, threshold, response) ==
    /\ qr.pc = "idle"
    /\ LET out == IF method = "rewrite" THEN Rewrite(has_client, length, response)
                  ELSE RewriteIfNeeded(has_client, length, threshold, response)
       IN  qr' = [pc |-> "done", method |-> method, has_client |-> has_client,
                  length |-> length,
                  threshold |-> IF method = "rewrite" THEN DirectThreshold ELSE threshold,
                  response |-> IF out.calls = 0 THEN "none" ELSE response,
                  calls |-> out.calls, result |-> out.result, raised |-> out.raised]
    /\ UNCHANGED not_rewriter

\* The caller takes the query.
RewriteReturn ==
    /\ qr.pc = "done"
    /\ qr' = NoQr
    /\ UNCHANGED not_rewriter

RewriterInit ==
    /\ RetrievalIdle
    /\ FetchIdle /\ IndexIdle /\ CompressorIdle
    /\ FileCacheIdle /\ ValidatorIdle /\ BatchIdle
    /\ RewriterIdle

RewriterNext ==
    \/ /\ qr.pc = "idle"
       /\ \E method \in {"rewrite", "rewrite_if_needed"}, has_client \in BOOLEAN,
             length \in QueryLengths, threshold \in RewriteThresholds,
             response \in Responses :
             RewriteCall(method, has_client, length, threshold, response)
    \/ RewriteReturn

SpecRewriter == RewriterInit /\ [][RewriterNext]_vars

\* C24: a query whose length is at or above the threshold (the threshold of
\* the call for rewrite_if_needed, 50 for rewrite) is returned unchanged
\* without a generation call; only strictly shorter queries are sent.
C24_UnchangedFromThreshold ==
    qr.pc = "done" /\ qr.length >= qr.threshold
        => qr.calls = 0 /\ qr.result = "original"

\* What holds: rewrite_if_needed sends no query at or above its threshold,
\* and rewrite none above 50 characters.
C24_UnchangedAboveThreshold ==
    qr.pc = "done"
        => /\ qr.method = "rewrite_if_needed" /\ qr.length >= qr.threshold
                 => qr.calls = 0 /\ qr.result = "original"
           /\ qr.length > DirectThreshold
                 => qr.calls = 0 /\ qr.result = "original"

C25_EmptyReplyGivesEmptyQuery ==
    qr.pc = "done" /\ qr.response = "empty_text" => qr.result = "empty"


(***************************************************************************)
(* ContextCompressor (src/ml/context_compressor.py)                        *)
(***************************************************************************)
\* Most documents given to one compress call.
MaxCompress == 2

\* original_tokens = len(doc.page_content) // 4
CharsPerToken == 4

\* if original_tokens < 100: the document is not compressed
MinTokens == 100

\* if len(compressed) < 50: return content
MinCompressedLength == 50

\* The lengths of the page contents, around 100 estimated tokens.
ContentLengths == {0, 399, 400, 2000}

\* What the generation call does for one document: it raises, or returns a
\* text of some length after strip().
Replies ==
    {[raises |-> TRUE, length |-> 0]}
        \cup {[raises |-> FALSE, length |-> n] : n \in {0, 49, 50, 300}}

EstimatedTokens(length) == length \div CharsPerToken

\* A test that keeps every reply.
NeverTooShort(length) == FALSE

\* len(compressed) < 50
TooShort(length) == length < MinCompressedLength

\* _compress_single(query, content): the text it returns, the content
\* itself when the call raises or the reply is too short.
CompressSingle(i, reply) ==
    IF reply.raises \/ TooShort(reply.length) THEN <<"content", i>>
    ELSE <<"compressed", i>>

\* The document compress puts in its result for the i-th document.
CompressedDoc(i, length, reply) ==
    IF EstimatedTokens(length) < MinTokens
    THEN [page_content |-> <<"content", i>>, compressed |-> FALSE]
    ELSE [page_content |-> CompressSingle(i, reply), compressed |-> TRUE]

\* ContextCompressor.compress(query, documents): documents[i] is the length
\* of the i-th page content, replies[i] what the generation call does for
\* it.
Compress(has_client, documents, replies) ==
    IF ~has_client \/ documents = <<>>
    THEN [i \in 1..Len(documents) |->
             [page_content |-> <<"content", i>>, compressed |-> FALSE]]
    ELSE [i \in 1..Len(documents) |-> CompressedDoc(i, documents[i], replies[i])]

CompressCall(has_client, documents, replies) ==
    /\ cc.pc = "idle"
    /\ cc' = [pc |-> "done", has_client |-> has_client, documents |-> documents,
              replies |-> replies,
              result |-> Compress(has_client, documents, replies),
              raised |-> FALSE]
    /\ UNCHANGED not_compressor

\* The caller takes the documents.
CompressReturn ==
    /\ cc.pc = "done"
    /\ cc' = NoCc
    /\ UNCHANGED not_compressor

CompressorInit ==
    /\ RetrievalIdle
    /\ FetchIdle /\ IndexIdle /\ RewriterIdle
    /\ FileCacheIdle /\ ValidatorIdle /\ BatchIdle
    /\ CompressorIdle

CompressorNext ==
    \/ /\ cc.pc = "idle"
       /\ \E has_client \in BOOLEAN, documents \in SeqUpTo(ContentLengths, MaxCompress) :
             \E replies \in [1..Len(documents) -> Replies] :
                CompressCall(has_client, documents, replies)
    \/ CompressReturn

SpecCompressor == CompressorInit /\ [][CompressorNext]_vars

\* C26: compress returns one document per input document, in input order,
\* and the content is the original one whenever the document has fewer than
\* 100 estimated tokens (4 characters per token), the compression call
\* fails, or the compressed text is shorter than 50 characters.
C26_OnePerInputOriginalKept ==
    cc.pc = "done"
        => /\ ~cc.raised
           /\ Len(cc.result) = Len(cc.documents)
           /\ \A i \in 1..Len(cc.result) :
                 /\ cc.result[i].page_content[2] = i
                 /\ (\/ cc.documents[i] < 100 * 4
                     \/ cc.replies[i].raises
                     \/ cc.replies[i].length < 50)
                       => cc.result[i].page_content = <<"content", i>>

\* Two long documents: the reply for the first has 49 characters and the
\* first keeps its content, the second is compressed.
C26_Witness ==
    /\ cc.pc = "done"
    /\ cc.has_client
    /\ Len(cc.documents) = 2
    /\ cc.documents[1] = 2000 /\ ~cc.replies[1].raises /\ cc.replies[1].length = 49
    /\ cc.result[1].page_content = <<"content", 1>>
    /\ cc.result[2].page_content = <<"compressed", 2>>

\* A reply of exactly 50 characters replaces the content.
C26_ReplyOfFiftyIsKept ==
    cc.pc = "done" /\ cc.has_client
        => \A i \in 1..Len(cc.result) :
              cc.documents[i] >= 400 /\ ~cc.replies[i].raises /\ cc.replies[i].length = 50
                  => cc.result[i].page_content = <<"compressed", i>>


(***************************************************************************)
(* FileCache (src/utils/cache.py): one key, its file and the clock         *)
(***************************************************************************)
\* cache = FileCache(cache_dir="cache", default_ttl=86400)
DefaultTtl == 86400

\* The values given to set: JSON data, or a value json.dump cannot write.
FileValues == {"v1", "v2", "document"}

\* The ttl argument of set: none, or a number of seconds.
TtlArgs == {[given |-> FALSE, ttl |-> 0]} \cup {[given |-> TRUE, ttl |-> t] : t \in 0..MaxTtl}

\* A set that uses the ttl it is given.
GivenTtl(arg) == IF arg.given THEN arg.ttl ELSE DefaultTtl

\* ttl = ttl or self.default_ttl
EffectiveTtl(arg) == IF arg.given /\ arg.ttl # 0 THEN arg.ttl ELSE DefaultTtl

\* FileCache.set(key, value, ttl) at time clock: the file it leaves and
\* what it returns.  json.dump fails on a value it cannot write, after the
\* file was opened for writing.
FileSet(value, arg, clock) ==
    IF value = "document"
    THEN [file |-> [kind |-> "unreadable"], ret |-> [kind |-> "bool", value |-> FALSE]]
    ELSE [file |-> [kind |-> "entry", value |-> value, arg |-> arg,
                    created_at |-> clock,
                    expires_at |-> clock + EffectiveTtl(arg)],
          ret |-> [kind |-> "bool", value |-> TRUE]]

\* FileCache.get(key) at time clock: the file it leaves and what it
\* returns.  An expired entry is deleted; a file that cannot be read stays.
FileGet(file, clock) ==
    IF file.kind = "none" THEN [file |-> file, ret |-> [kind |-> "None"]]
    ELSE IF file.kind = "unreadable" THEN [file |-> file, ret |-> [kind |-> "None"]]
    ELSE IF clock > file.expires_at
    THEN [file |-> [kind |-> "none"], ret |-> [kind |-> "None"]]
    ELSE [file |-> file, ret |-> [kind |-> "value", value |-> file.value]]

FileSetCall(value, arg) ==
    /\ fc.pc = "idle"
    /\ LET out == FileSet(value, arg, fc.clock)
       IN  fc' = [fc EXCEPT !.pc = "set", !.file = out.file, !.ret = out.ret]
    /\ UNCHANGED not_filecache

FileGetCall ==
    /\ fc.pc = "idle"
    /\ LET out == FileGet(fc.file, fc.clock)
       IN  fc' = [fc EXCEPT !.pc = "got", !.file = out.file, !.ret = out.ret]
    /\ UNCHANGED not_filecache

\* The caller takes the answer.
FileReturn ==
    /\ fc.pc \in {"set", "got"}
    /\ fc' = [fc EXCEPT !.pc = "idle", !.ret = [kind |-> "none"]]
    /\ UNCHANGED not_filecache

\* A second passes.
FileTick ==
    /\ fc.pc = "idle"
    /\ fc.clock <= MaxTime
    /\ fc' = [fc EXCEPT !.clock = fc.clock + 1]
    /\ UNCHANGED not_filecache

FileCacheInit ==
    /\ RetrievalIdle
    /\ FetchIdle /\ IndexIdle /\ RewriterIdle /\ CompressorIdle
    /\ ValidatorIdle /\ BatchIdle
    /\ FileCacheIdle

FileCacheNext ==
    \/ \E value \in FileValues, arg \in TtlArgs : FileSetCall(value, arg)
    \/ FileGetCall
    \/ FileReturn
    \/ FileTick

SpecFileCache == FileCacheInit /\ [][FileCacheNext]_vars

\* C27: set(key, value, ttl=t) stores an entry that expires t seconds after
\* the write, for every t >= 0, t = 0 included; get never returns the value
\* of an entry whose expiry time has passed.
C27_ExpiresAfterTtl ==
    /\ fc.file.kind = "entry" /\ fc.file.arg.given
          => fc.file.expires_at = fc.file.created_at + fc.file.arg.ttl
    /\ fc.pc = "got" /\ fc.ret.kind = "value"
          => /\ fc.file.kind = "entry"
             /\ fc.clock <= fc.file.created_at + GivenTtl(fc.file.arg)

\* What holds: a positive ttl is the lifetime of the entry, and get returns
\* no entry after the expiry time the file records.
C27_PositiveTtlExpires ==
    /\ fc.file.kind = "entry" /\ fc.file.arg.given /\ fc.file.arg.ttl > 0
          => fc.file.expires_at = fc.file.created_at + fc.file.arg.ttl
    /\ fc.pc = "got" /\ fc.ret.kind = "value"
          => fc.file.kind = "entry" /\ fc.clock <= fc.file.expires_at

\* A get after the expiry time returned None and deleted the entry.
C27_ExpiredIsDeleted ==
    fc.pc = "got" /\ fc.ret.kind = "None" => fc.file.kind # "entry"


(***************************************************************************)
(* ResourceValidator (src/utils/resource_validator.py)                     *)
(***************************************************************************)
\* Largest max_retries a validator is built with; the generator builds it
\* with max_retries=2.
MaxRetries == 2

\* What one pass of the loop of _validate_generic meets: the status of the
\* HEAD response (for 405 with what the GET that follows does), a timeout,
\* a client error, or another exception.
HeadOutcomes ==
    {"200", "404", "429", "405_get_200", "405_get_404", "405_get_timeout",
     "timeout", "client_error", "other_error"}

\* A loop test that never ends the loop.
LoopsForever(retries, max_retries) == TRUE

\* while retries <= self.max_retries
LoopGoesOn(retries, max_retries) == retries <= max_retries

\* 2 ** retries
Pow2(n) == IF n = 0 THEN 1 ELSE IF n = 1 THEN 2 ELSE IF n = 2 THEN 4 ELSE IF n = 3 THEN 8 ELSE 16

\* _validate_generic(url, timeout) is called on a validator built with
\* max_retries.
GenericCall(max_retries) ==
    /\ rv.pc = "idle"
    /\ rv' = [NoRv EXCEPT !.pc = "loop", !.max_retries = max_retries]
    /\ UNCHANGED not_validator

\* One pass of the loop: a HEAD request and what follows it.
HeadStep(outcome) ==
    /\ rv.pc = "loop"
    /\ LoopGoesOn(rv.retries, rv.max_retries)
    /\ rv.heads <= MaxRetries + 1
    /\ LET r == [rv EXCEPT !.heads = rv.heads + 1]
       IN  rv' =
             CASE outcome \in {"200", "405_get_200"} ->
                    [r EXCEPT !.pc = "done", !.verdict = "valid"]
               [] outcome \in {"404", "405_get_404"} ->
                    [r EXCEPT !.pc = "done", !.verdict = "invalid"]
               [] outcome = "429" ->
                    [r EXCEPT !.retries = rv.retries + 1,
                              !.slept = rv.slept + Pow2(rv.retries + 1)]
               [] outcome \in {"timeout", "405_get_timeout"} ->
                    [r EXCEPT !.retries = rv.retries + 1,
                              !.last_error = "Request timeout",
                              !.slept = rv.slept + (IF rv.retries + 1 <= rv.max_retries
                                                    THEN 1 ELSE 0)]
               [] outcome = "client_error" ->
                    [r EXCEPT !.retries = rv.retries + 1,
                              !.last_error = "Client error",
                              !.slept = rv.slept + (IF rv.retries + 1 <= rv.max_retries
                                                    THEN 1 ELSE 0)]
               [] outcome = "other_error" ->
                    [r EXCEPT !.pc = "done", !.last_error = "error",
                              !.verdict = "invalid"]
    /\ UNCHANGED not_validator

\* All retries exhausted: the result after the loop.
Exhausted ==
    /\ rv.pc = "loop"
    /\ ~LoopGoesOn(rv.retries, rv.max_retries)
    /\ rv' = [rv EXCEPT !.pc = "done", !.verdict = "invalid"]
    /\ UNCHANGED not_validator

\* The caller takes the result.
GenericReturn ==
    /\ rv.pc = "done"
    /\ rv' = NoRv
    /\ UNCHANGED not_validator

ValidatorInit ==
    /\ RetrievalIdle
    /\ FetchIdle /\ IndexIdle /\ RewriterIdle /\ CompressorIdle
    /\ FileCacheIdle /\ BatchIdle
    /\ ValidatorIdle

\* The steps inside one call.
GenericStep ==
    \/ \E outcome \in HeadOutcomes : HeadStep(outcome)
    \/ Exhausted

GenericNext ==
    \/ \E max_retries \in 0..MaxRetries : GenericCall(max_retries)
    \/ GenericStep
    \/ GenericReturn

SpecGeneric == ValidatorInit /\ [][GenericNext]_vars /\ WF_vars(GenericStep)

\* C28: _validate_generic issues at most max_retries + 1 HEAD requests for
\* a URL, whatever the responses are, and then returns a valid or invalid
\* verdict: it does not loop forever and does not raise.
C28_BoundedRetries ==
    /\ [](/\ rv.heads <= rv.max_retries + 1
          /\ ~rv.raised
          /\ rv.pc = "done" => rv.verdict \in {"valid", "invalid"})
    /\ (rv.pc = "loop") ~> (rv.pc = "done")

\* Every request was rate-limited or timed out: max_retries + 1 requests,
\* then the verdict.
C28_Witness ==
    /\ rv.pc = "done"
    /\ rv.max_retries = 2
    /\ rv.heads = 3 /\ rv.retries = 3
    /\ rv.slept > 2
    /\ rv.verdict = "invalid"

(***************************************************************************)
(* validate_resources                                                      *)
(***************************************************************************)
\* Longest list of resources validated in one call.
MaxResources == 3

\* The URLs of the resources; "" is an empty or missing 'url'.
ResourceUrls == {"", "http://a", "http://b"}

\* What validate_url gives for a URL: a verdict, or an exception that
\* gather(return_exceptions=True) hands back as the result.
UrlOutcomes == {"valid", "invalid", "exception"}

\* The resource dicts of a call: the title is the position in the list.
ResourceList(urls) == [i \in 1..Len(urls) |-> [title |-> i, url |-> urls[i]]]

\* tasks: one validate_url(url) per resource with a non-empty url, in list
\* order; results: what gather returns for them, in the same order.  Each
\* result records the url its task was given (task_url).
GatherResults(resources, outcome) ==
    LET urls == SelectSeq([i \in 1..Len(resources) |-> resources[i].url],
                          LAMBDA u : u # "")
    IN  [i \in 1..Len(urls) |-> [task_url |-> urls[i], outcome |-> outcome[urls[i]]]]

\* The entry built for the resource at position i: the resource with the
\* i-th result as its validation when there is one, an exception replaced
\* by an invalid result, else the resource alone.
ValidatedEntry(resource, i, results) ==
    IF i <= Len(results)
    THEN [title |-> resource.title, url |-> resource.url, has_validation |-> TRUE,
          validation |->
              IF results[i].outcome = "exception"
              THEN [task_url |-> results[i].task_url, url |-> resource.url,
                    valid |-> FALSE, confidence |-> 0]
              ELSE [task_url |-> results[i].task_url, url |-> results[i].task_url,
                    valid |-> results[i].outcome = "valid",
                    confidence |-> IF results[i].outcome = "valid" THEN 100 ELSE 0]]
    ELSE [title |-> resource.title, url |-> resource.url, has_validation |-> FALSE,
          validation |-> [task_url |-> "", url |-> "", valid |-> FALSE, confidence |-> 0]]

\* validate_resources(resources)
ValidateResources(urls, outcome) ==
    /\ rv.pc = "idle"
    /\ LET resources == ResourceList(urls)
           results == GatherResults(resources, outcome)
       IN  rv' = [NoRv EXCEPT
                    !.pc = "validated",
                    !.resources = resources,
                    !.results = results,
                    !.validated = [i \in 1..Len(resources) |->
                                      ValidatedEntry(resources[i], i, results)]]
    /\ UNCHANGED not_validator

\* The caller takes the validated list.
ValidateReturn ==
    /\ rv.pc = "validated"
    /\ rv' = NoRv
    /\ UNCHANGED not_validator

ValidateNext ==
    \/ \E urls \in SeqUpTo(ResourceUrls, MaxResources) :
         \E outcome \in [ResourceUrls \ {""} -> UrlOutcomes] :
           ValidateResources(urls, outcome)
    \/ ValidateReturn

SpecValidate == ValidatorInit /\ [][ValidateNext]_vars

\* C29: validate_resources returns one entry per input resource in input
\* order, and every entry that carries a validation carries the result of
\* the task that validated that resource's own URL, also when some
\* resources have an empty or missing URL.
C29_OwnValidation ==
    rv.pc = "validated" =>
        /\ Len(rv.validated) = Len(rv.resources)
        /\ \A i \in 1..Len(rv.resources) :
             /\ rv.validated[i].title = rv.resources[i].title
             /\ rv.validated[i].url = rv.resources[i].url
             /\ rv.validated[i].has_validation =>
                    rv.validated[i].validation.task_url = rv.resources[i].url

\* C29 (part that holds): one entry per input resource, in input order, and
\* when every resource has a URL each entry carries its own result.
C29_OnePerResource ==
    rv.pc = "validated" =>
        /\ Len(rv.validated) = Len(rv.resources)
        /\ \A i \in 1..Len(rv.resources) :
             /\ rv.validated[i].title = rv.resources[i].title
             /\ rv.validated[i].url = rv.resources[i].url
        /\ (\A i \in 1..Len(rv.resources) : rv.resources[i].url # "") =>
              \A i \in 1..Len(rv.resources) :
                 /\ rv.validated[i].has_validation
                 /\ rv.validated[i].validation.task_url = rv.resources[i].url


(***************************************************************************)
(* DocumentStore.add_documents_batch (src/data/document_store.py)          *)
(***************************************************************************)
\* Longest list of documents given to one call.
MaxBatchDocs == 3

\* page_content of the documents of a call.
BatchContents == {"a", "b"}

\* batch_size arguments: zero and a negative size besides the usual ones.
BatchSizes == {-1, 0, 1, 2}

\* for i in range(0, len(documents), batch_size): whether the loop has a
\* next batch at offset i.
HasBatch(i, len, batch_size) == batch_size > 0 /\ i < len

\* batch = documents[i:batch_end], as positions in the list (1-based).
BatchPositions(i, len, batch_size) ==
    [j \in 1..(Min(i + batch_size, len) - i) |-> i + j]

\* ids of a batch: f"doc_{i+j}_{hash(doc.page_content) % 1000000}", with the
\* 0-based position in the whole list.
BatchIds(documents, positions) ==
    [j \in 1..Len(positions) |->
        [index |-> positions[j] - 1, hash |-> documents[positions[j]]]]

\* The except branch of add_documents_batch: return [].
BatchFailed(r) == [r EXCEPT !.pc = "done", !.result = <<>>, !.failed = TRUE]

\* add_documents_batch(documents, batch_size=batch_size); an empty list
\* returns [] at once.
BatchCall(documents, batch_size) ==
    /\ ab.pc = "idle"
    /\ ab' = IF documents = <<>>
             THEN [NoAb EXCEPT !.pc = "done", !.batch_size = batch_size]
             ELSE [NoAb EXCEPT !.pc = "init", !.documents = documents,
                               !.batch_size = batch_size]
    /\ UNCHANGED not_batch

\* _initialize_collection and the range of the loop: either may raise
\* (range raises for a step of zero).
BatchInitialize(ok) ==
    /\ ab.pc = "init"
    /\ ab' = IF ok /\ ab.batch_size # 0
             THEN [ab EXCEPT !.pc = "loop"]
             ELSE BatchFailed(ab)
    /\ UNCHANGED not_batch

\* One pass of the loop: collection.add of the next batch, which stores the
\* batch or raises.
BatchAdd(ok) ==
    /\ ab.pc = "loop"
    /\ HasBatch(ab.i, Len(ab.documents), ab.batch_size)
    /\ LET positions == BatchPositions(ab.i, Len(ab.documents), ab.batch_size)
           called == [ab EXCEPT !.passed = Append(ab.passed, positions)]
       IN  ab' = IF ok
                 THEN [called EXCEPT
                         !.stored = ab.stored \o positions,
                         !.all_ids = ab.all_ids \o BatchIds(ab.documents, positions),
                         !.i = ab.i + ab.batch_size]
                 ELSE BatchFailed(called)
    /\ UNCHANGED not_batch

\* After the loop: the rate len(documents)/elapsed is printed, which raises
\* when the clock has not moved, and all_ids is returned.
BatchFinish(elapsed_zero) ==
    /\ ab.pc = "loop"
    /\ ~HasBatch(ab.i, Len(ab.documents), ab.batch_size)
    /\ ab' = IF elapsed_zero
             THEN BatchFailed(ab)
             ELSE [ab EXCEPT !.pc = "done", !.result = ab.all_ids]
    /\ UNCHANGED not_batch

\* The caller takes the ids.
BatchReturn ==
    /\ ab.pc = "done"
    /\ ab' = NoAb
    /\ UNCHANGED not_batch

BatchInit ==
    /\ RetrievalIdle
    /\ FetchIdle /\ IndexIdle /\ RewriterIdle /\ CompressorIdle
    /\ FileCacheIdle /\ ValidatorIdle
    /\ BatchIdle

BatchNext ==
    \/ \E documents \in SeqUpTo(BatchContents, MaxBatchDocs) :
         \E batch_size \in BatchSizes : BatchCall(documents, batch_size)
    \/ \E ok \in BOOLEAN : BatchInitialize(ok)
    \/ \E ok \in BOOLEAN : BatchAdd(ok)
    \/ \E elapsed_zero \in BOOLEAN : BatchFinish(elapsed_zero)
    \/ BatchReturn

SpecBatch == BatchInit /\ [][BatchNext]_vars

\* C30: add_documents_batch passes the documents to the storage engine in
\* input order, each at most once, in batches of at most batch_size, and
\* its return value reflects what was stored: when it returns an empty list
\* for a non-empty input, no document of that input was added.
C30_EmptyMeansNothingAdded ==
    /\ Concat(ab.passed) = [p \in 1..Len(Concat(ab.passed)) |-> p]
    /\ \A b \in 1..Len(ab.passed) : Len(ab.passed[b]) <= ab.batch_size
    /\ (ab.pc = "done" /\ ab.documents # <<>> /\ ab.result = <<>>) =>
            ab.stored = <<>>

\* C30 (part that holds): the batches are passed in input order, each
\* document at most once, in batches of at most batch_size, and a call
\* that returns ids has stored every document exactly once and returns
\* one id per document.
C30_BatchesInOrder ==
    /\ Concat(ab.passed) = [p \in 1..Len(Concat(ab.passed)) |-> p]
    /\ \A b \in 1..Len(ab.passed) : Len(ab.passed[b]) <= ab.batch_size
    /\ (ab.pc = "done" /\ ab.result # <<>>) =>
          /\ ab.stored = [p \in 1..Len(ab.documents) |-> p]
          /\ Len(ab.result) = Len(ab.documents)
          /\ \A p \in 1..Len(ab.result) : ab.result[p].index = p - 1

=============================================================================
